---- MODULE Spec2Model ----
(***************************************************************************)
(* Movie search aggregator: app/services/movie_service.py (MovieService),  *)
(* app/services/external_apis/{omdb,tmdb}_client.py (provider clients) and *)
(* app/utils/cache.py (CacheManager over cachetools.TTLCache).             *)
(*                                                                         *)
(* Python str values are sequences of one-character strings, so lower(),   *)
(* strip(), split(','), the `in` substring test, int() and float() are     *)
(* computed character by character.  None is the one-element sequence      *)
(* <<"None">>, which no str value equals (characters have length one).     *)
(***************************************************************************)
EXTENDS Integers, Sequences, FiniteSets, TLC

VARIABLES
    cache,      \* cache_manager.cache: TTLCache entries in link (recency) order
    now,        \* the TTLCache timer, in seconds
    upstream,   \* what the OMDB and TMDB endpoints answer (fixed per run)
    last,       \* observation of the last request handled
    session,    \* a caller walking the pages of one query, as test_pagination does
    call,       \* pure-function specifications: the function and its arguments
    ret,        \* pure-function specifications: the value returned
    pc          \* pure-function specifications: "call" before, "done" after

vars == <<cache, now, upstream, last, session, call, ret, pc>>

(***************************************************************************)
(* Python values                                                           *)
(***************************************************************************)
None == <<"None">>

\* bool(x) for an Optional[str] / Optional[MovieType]: None and "" are falsy
Truthy(x) == x /= None /\ x /= <<>>

UpperChars == <<"A","B","C","D","E","F","G","H","I","J","K","L","M",
                "N","O","P","Q","R","S","T","U","V","W","X","Y","Z">>
LowerChars == <<"a","b","c","d","e","f","g","h","i","j","k","l","m",
                "n","o","p","q","r","s","t","u","v","w","x","y","z">>
DigitChars == <<"0","1","2","3","4","5","6","7","8","9">>

IsSpace(c) == c = " "
DigitOf == [c \in {DigitChars[i] : i \in 1..10} |->
               (CHOOSE i \in 1..10 : DigitChars[i] = c) - 1]

IsDigit(c) == c \in DOMAIN DigitOf
DigitVal(c) == DigitOf[c]

LowerOf == [c \in {UpperChars[i] : i \in 1..26} |->
               LowerChars[CHOOSE i \in 1..26 : UpperChars[i] = c]]

LowerChar(c) == IF c \in DOMAIN LowerOf THEN LowerOf[c] ELSE c

\* str.lower()
Lower(s) == [i \in 1..Len(s) |-> LowerChar(s[i])]

\* str.strip(): drop leading and trailing whitespace
RECURSIVE LStrip(_)
LStrip(s) == IF s /= <<>> /\ IsSpace(Head(s)) THEN LStrip(Tail(s)) ELSE s

RECURSIVE RStrip(_)
RStrip(s) ==
    IF s /= <<>> /\ IsSpace(s[Len(s)]) THEN RStrip(SubSeq(s, 1, Len(s) - 1)) ELSE s

Strip(s) == RStrip(LStrip(s))

\* `sub in s` for str
Contains(sub, s) ==
    \E i \in 1..(Len(s) - Len(sub) + 1) : SubSeq(s, i, i + Len(sub) - 1) = sub

\* str.split(','): the tokens between commas; "" splits to [""]
RECURSIVE SplitComma(_)
SplitComma(s) ==
    IF \E i \in 1..Len(s) : s[i] = ","
    THEN LET i == CHOOSE j \in 1..Len(s) :
                      s[j] = "," /\ \A k \in 1..(j - 1) : s[k] /= ","
         IN <<SubSeq(s, 1, i - 1)>> \o SplitComma(SubSeq(s, i + 1, Len(s)))
    ELSE <<s>>

\* value of a non-empty run of decimal digits
RECURSIVE DigitsVal(_)
DigitsVal(s) ==
    IF s = <<>> THEN 0
    ELSE 10 * DigitsVal(SubSeq(s, 1, Len(s) - 1)) + DigitVal(s[Len(s)])

AllDigits(s) == s /= <<>> /\ \A i \in 1..Len(s) : IsDigit(s[i])

\* int(s) for a str: surrounding whitespace is ignored, one sign is allowed,
\* the rest must be decimal digits; anything else raises ValueError
\* (the digit-group underscore of Python literals is not among the
\* characters modelled).
PyInt(s) ==
    LET t == Strip(s)
        signed == t /= <<>> /\ Head(t) \in {"+", "-"}
        body == IF signed THEN Tail(t) ELSE t
    IN IF AllDigits(body)
       THEN [ok |-> TRUE,
             val |-> IF signed /\ Head(t) = "-" THEN 0 - DigitsVal(body)
                     ELSE DigitsVal(body)]
       ELSE [ok |-> FALSE, val |-> 0]

\* float(s) for a str holding a decimal literal, in tenths: digits, an
\* optional point and fraction digits (the first fraction digit is kept,
\* ratings carry one); anything else raises ValueError.
PyFloat10(s) ==
    LET t == Strip(s)
        signed == t /= <<>> /\ Head(t) \in {"+", "-"}
        body == IF signed THEN Tail(t) ELSE t
        hasDot == \E i \in 1..Len(body) : body[i] = "."
        dot == IF hasDot THEN CHOOSE i \in 1..Len(body) : body[i] = "." ELSE Len(body) + 1
        ip == SubSeq(body, 1, dot - 1)
        fp == SubSeq(body, dot + 1, Len(body))
        wellFormed == /\ \A i \in 1..Len(ip) : IsDigit(ip[i])
                      /\ \A i \in 1..Len(fp) : IsDigit(fp[i])
                      /\ Len(ip) + Len(fp) > 0
        mag == 10 * DigitsVal(ip) + (IF fp = <<>> THEN 0 ELSE DigitVal(fp[1]))
    IN IF wellFormed
       THEN [ok |-> TRUE, val |-> IF signed /\ Head(t) = "-" THEN 0 - mag ELSE mag]
       ELSE [ok |-> FALSE, val |-> 0]

(***************************************************************************)
(* app/models/movie.py                                                     *)
(***************************************************************************)
MOVIE == <<"movie">>
SERIES == <<"series">>
EPISODE == <<"episode">>
MovieType == {MOVIE, SERIES, EPISODE}

\* Movie: the fields the service and the clients read (poster, plot,
\* director, runtime and released are carried through untouched)
Movie(title, year, imdb_id, type, actors, genre, imdb_rating) ==
    [title |-> title, year |-> year, imdb_id |-> imdb_id, type |-> type,
     actors |-> actors, genre |-> genre, imdb_rating |-> imdb_rating]

MovieSearchParams(title, actors, type, genre, year, page, limit) ==
    [title |-> title, actors |-> actors, type |-> type, genre |-> genre,
     year |-> year, page |-> page, limit |-> limit]

(***************************************************************************)
(* app/services/movie_service.py: validation                               *)
(***************************************************************************)
MinYear == 1900
MaxYear == 2025

Valid == [status |-> "ok", detail |-> "none"]
ValidationError(detail) == [status |-> "ValidationError", detail |-> detail]

\* MovieService._validate_search_params: returns normally or raises
ValidateSearchParamsNoUpper(params) ==
    IF ~(\/ Truthy(params.title) \/ Truthy(params.actors) \/ Truthy(params.type)
         \/ Truthy(params.genre) \/ Truthy(params.year))
    THEN ValidationError("At least one search parameter is required")
    ELSE IF Truthy(params.year)
    THEN LET year_int == PyInt(params.year)
         IN IF ~year_int.ok
            THEN ValidationError("Year must be a valid integer")
            ELSE IF year_int.val < MinYear
            THEN ValidationError("Year must be between 1900 and 2025")
            ELSE Valid
    ELSE Valid

ValidateSearchParams(params) ==
    IF ~(\/ Truthy(params.title) \/ Truthy(params.actors) \/ Truthy(params.type)
         \/ Truthy(params.genre) \/ Truthy(params.year))
    THEN ValidationError("At least one search parameter is required")
    ELSE IF Truthy(params.year)
    THEN LET year_int == PyInt(params.year)
         IN IF ~year_int.ok
            THEN ValidationError("Year must be a valid integer")
            ELSE IF year_int.val < MinYear \/ year_int.val > MaxYear
            THEN ValidationError("Year must be between 1900 and 2025")
            ELSE Valid
    ELSE Valid

(***************************************************************************)
(* app/services/movie_service.py: merge, filter, rank, paginate            *)
(***************************************************************************)
\* the dict key of _merge_movie_results and _remove_duplicates
MovieKey(movie) == <<Strip(Lower(movie.title)), movie.year>>

\* a Python dict as its items in insertion order; d[k] = v keeps the
\* position of a key already present and replaces its value
DictHas(d, k) == \E i \in 1..Len(d) : d[i].key = k

\* d[k] = v that moves a key already present to the end
DictSetMovingToEnd(d, k, v) ==
    Append(SelectSeq(d, LAMBDA e : e.key /= k), [key |-> k, value |-> v])

DictSet(d, k, v) ==
    IF DictHas(d, k)
    THEN [i \in 1..Len(d) |-> IF d[i].key = k THEN [key |-> k, value |-> v] ELSE d[i]]
    ELSE Append(d, [key |-> k, value |-> v])

DictValues(d) == [i \in 1..Len(d) |-> d[i].value]

\* for movie in omdb_movies: movie_map[key] = movie
RECURSIVE AddOmdb(_, _)
AddOmdb(movie_map, omdb_movies) ==
    IF omdb_movies = <<>> THEN movie_map
    ELSE AddOmdb(DictSet(movie_map, MovieKey(Head(omdb_movies)), Head(omdb_movies)),
                 Tail(omdb_movies))

RECURSIVE AddTmdbOverwriting(_, _)
AddTmdbOverwriting(movie_map, tmdb_movies) ==
    IF tmdb_movies = <<>> THEN movie_map
    ELSE AddTmdbOverwriting(
             DictSet(movie_map, MovieKey(Head(tmdb_movies)), Head(tmdb_movies)),
             Tail(tmdb_movies))

\* for movie in tmdb_movies: if key not in movie_map: movie_map[key] = movie
RECURSIVE AddTmdb(_, _)
AddTmdb(movie_map, tmdb_movies) ==
    IF tmdb_movies = <<>> THEN movie_map
    ELSE LET key == MovieKey(Head(tmdb_movies))
         IN AddTmdb(IF DictHas(movie_map, key) THEN movie_map
                    ELSE DictSet(movie_map, key, Head(tmdb_movies)),
                    Tail(tmdb_movies))

\* MovieService._merge_movie_results
MergeMovieResults(omdb_movies, tmdb_movies) ==
    DictValues(AddTmdb(AddOmdb(<<>>, omdb_movies), tmdb_movies))

\* the query sought in the whole field, commas included
TokenMatchJoined(query, field) == Contains(Strip(Lower(query)), Lower(field))

\* any(search in token for token in [t.strip().lower() for t in field.split(',')])
TokenMatch(query, field) ==
    LET tokens == SplitComma(field)
        search == Strip(Lower(query))
    IN \E i \in 1..Len(tokens) : Contains(search, Lower(Strip(tokens[i])))

\* the loop body of MovieService._apply_additional_filters: TRUE when kept
PassesAdditionalFilters(movie, params) ==
    /\ ~(Truthy(params.actors) /\ Truthy(movie.actors)
         /\ ~TokenMatch(params.actors, movie.actors))
    /\ ~(Truthy(params.genre) /\ Truthy(movie.genre)
         /\ ~TokenMatch(params.genre, movie.genre))
    /\ ~(Truthy(params.type) /\ movie.type /= params.type)
    /\ ~(Truthy(params.year) /\ movie.year /= params.year)

\* MovieService._apply_additional_filters
ApplyAdditionalFilters(movies, params) ==
    SelectSeq(movies, LAMBDA movie : PassesAdditionalFilters(movie, params))

\* sort_key: title_score
TitleScore(movie, params) ==
    IF Truthy(params.title) /\ Truthy(movie.title)
    THEN IF Lower(params.title) = Lower(movie.title) THEN 0
         ELSE IF Contains(Lower(params.title), Lower(movie.title)) THEN 1
         ELSE 2
    ELSE 0

\* sort_key: rating_score, in tenths
RatingScoreAscending(movie) ==
    IF Truthy(movie.imdb_rating)
    THEN LET r == PyFloat10(movie.imdb_rating) IN IF r.ok THEN r.val ELSE 0
    ELSE 0

RatingScore(movie) ==
    IF Truthy(movie.imdb_rating)
    THEN LET r == PyFloat10(movie.imdb_rating) IN IF r.ok THEN 0 - r.val ELSE 0
    ELSE 0

\* sort_key: year_score
YearScore(movie) ==
    IF Truthy(movie.year)
    THEN LET y == PyInt(movie.year) IN IF y.ok THEN 0 - y.val ELSE 0
    ELSE 0

\* sort_key of MovieService._sort_movies
SortKey(movie, params) == <<TitleScore(movie, params), RatingScore(movie), YearScore(movie)>>

\* tuple comparison a < b
TupleLess(a, b) ==
    \/ a[1] < b[1]
    \/ a[1] = b[1] /\ a[2] < b[2]
    \/ a[1] = b[1] /\ a[2] = b[2] /\ a[3] < b[3]

\* sorted(items, key=...) computes each key once and is stable: an element
\* goes after every earlier element whose key is not greater (these are a
\* prefix of the elements sorted so far).  keyed holds [key, item] pairs.
InsertByKey(sorted, pair) ==
    LET before == SelectSeq(sorted, LAMBDA other : ~TupleLess(pair.key, other.key))
    IN before \o <<pair>> \o SubSeq(sorted, Len(before) + 1, Len(sorted))

RECURSIVE SortInto(_, _)
SortInto(sorted, keyed) ==
    IF keyed = <<>> THEN sorted
    ELSE SortInto(InsertByKey(sorted, Head(keyed)), Tail(keyed))

\* MovieService._sort_movies
SortMovies(movies, params) ==
    LET keyed == [i \in 1..Len(movies) |->
                     [key |-> SortKey(movies[i], params), item |-> movies[i]]]
        sorted == SortInto(<<>>, keyed)
    IN [i \in 1..Len(sorted) |-> sorted[i].item]

\* math.ceil(total_results / limit) for non-negative total and positive limit
FloorDiv(total_results, limit) == total_results \div limit

CeilDiv(total_results, limit) ==
    IF total_results % limit = 0 THEN total_results \div limit
    ELSE (total_results \div limit) + 1

\* sorted_movies[start_index:end_index]
SliceFromPrevious(s, start_index, end_index) ==
    SubSeq(s, IF start_index = 0 THEN 1 ELSE start_index,
           IF end_index < Len(s) THEN end_index ELSE Len(s))

Slice(s, start_index, end_index) ==
    SubSeq(s, start_index + 1, IF end_index < Len(s) THEN end_index ELSE Len(s))

SearchResponse(movies, total_results, page, total_pages) ==
    [movies |-> movies, total_results |-> total_results, page |-> page,
     total_pages |-> total_pages]

\* MovieService.search_movies, lines 41-55: the page window and the totals
PaginateCountingPage(sorted_movies, params) ==
    LET start_index == (params.page - 1) * params.limit
        end_index == start_index + params.limit
        paginated_movies == Slice(sorted_movies, start_index, end_index)
        total_results == Len(paginated_movies)
        total_pages == IF total_results > 0 THEN CeilDiv(total_results, params.limit) ELSE 0
    IN SearchResponse(paginated_movies, total_results, params.page, total_pages)

Paginate(sorted_movies, params) ==
    LET total_results == Len(sorted_movies)
        start_index == (params.page - 1) * params.limit
        end_index == start_index + params.limit
        paginated_movies == Slice(sorted_movies, start_index, end_index)
        total_pages == IF total_results > 0 THEN CeilDiv(total_results, params.limit) ELSE 0
    IN SearchResponse(paginated_movies, total_results, params.page, total_pages)

\* MovieService.search_movies from the merge on: lines 32-55
Respond(omdb_movies, tmdb_movies, params) ==
    Paginate(SortMovies(ApplyAdditionalFilters(MergeMovieResults(omdb_movies, tmdb_movies),
                                               params), params), params)

(***************************************************************************)
(* app/utils/cache.py: CacheManager over cachetools.TTLCache               *)
(***************************************************************************)
maxsize == 100
ttl == 300

\* json.dumps(..., sort_keys=True) orders the kwargs dict by field name;
\* FieldOrder lists the names that occur in ascending str order
FieldOrder == <<"actors", "genre", "limit", "page", "title", "type", "year">>
FieldRankOf == [name \in {FieldOrder[i] : i \in 1..Len(FieldOrder)} |->
                   CHOOSE i \in 1..Len(FieldOrder) : FieldOrder[i] = name]
FieldRank(name) == FieldRankOf[name]

KwArg(name, value) == [name |-> name, value |-> value]

InsertItem(items, item) ==
    LET rank == FieldRank(item.name)
        before == SelectSeq(items, LAMBDA other : FieldRank(other.name) <= rank)
    IN before \o <<item>> \o SubSeq(items, Len(before) + 1, Len(items))

RECURSIVE SortItems(_)
SortItems(items) ==
    IF items = <<>> THEN <<>>
    ELSE InsertItem(SortItems(SubSeq(items, 1, Len(items) - 1)), items[Len(items)])

\* json.dumps({'args': args, 'kwargs': kwargs}, sort_keys=True): the text is
\* determined by the positional values in order and the named values in
\* name order; kwargs arrives as the items in call order
JsonDumpsSorted(args, kwargs) == [args |-> args, kwargs |-> SortItems(kwargs)]

\* hashlib.md5(text).hexdigest(): one digest per text (collisions apart)
Md5(text) == <<"md5", text>>

\* CacheManager._generate_key / generate_key
GenerateKeyUnsorted(args, kwargs) == Md5([args |-> args, kwargs |-> kwargs])

GenerateKey(args, kwargs) == Md5(JsonDumpsSorted(args, kwargs))

\* values held by the cache and returned by get: a list of Movie, a Movie,
\* or None on a miss
ListValue(movies) == [kind |-> "list", v |-> movies]
MovieValue(movie) == [kind |-> "movie", v |-> <<movie>>]
NoValue == [kind |-> "none", v |-> <<>>]

\* bool(cached_result): None and the empty list are falsy, a Movie is truthy
TruthyValue(value) ==
    \/ value.kind = "movie"
    \/ value.kind = "list" /\ value.v /= <<>>

HasKey(c, key) == \E i \in 1..Len(c) : c[i].key = key
IndexOf(c, key) == CHOOSE i \in 1..Len(c) : c[i].key = key
Without(c, key) == SelectSeq(c, LAMBDA e : e.key /= key)

\* an entry that is still served at its expiry time
LiveAtExpiry(c, key, t) == HasKey(c, key) /\ t <= c[IndexOf(c, key)].expires

\* key in cache: present and not expired at time t
Live(c, key, t) == HasKey(c, key) /\ t < c[IndexOf(c, key)].expires

\* TTLCache.get at time t: the value and the cache afterwards (a live entry
\* read becomes the most recently used)
CacheGet(c, key, t) ==
    IF Live(c, key, t)
    THEN [value |-> c[IndexOf(c, key)].value,
          cache |-> Append(Without(c, key), c[IndexOf(c, key)])]
    ELSE [value |-> NoValue, cache |-> c]

\* TTLCache.expire
Expire(c, t) == SelectSeq(c, LAMBDA e : t < e.expires)

\* a store that never evicts
MakeRoomKeeping(c) == c

\* TTLCache.__setitem__ at time t: expired entries are dropped, the least
\* recently used entries make room for a new key, the entry goes last with
\* expiry t + ttl
RECURSIVE MakeRoom(_)
MakeRoom(c) == IF Len(c) >= maxsize THEN MakeRoom(Tail(c)) ELSE c

CacheSet(c, key, value, t) ==
    LET live == Expire(c, t)
        room == IF HasKey(live, key) THEN Without(live, key) ELSE MakeRoom(live)
    IN Append(room, [key |-> key, value |-> value, expires |-> t + ttl])

\* CacheManager.size at time t
CacheSize(c, t) == Len(Expire(c, t))

(***************************************************************************)
(* Upstream data: the JSON the OMDB and TMDB endpoints answer with         *)
(***************************************************************************)
TitleBatman == <<"B", "a", "t", "m", "a", "n">>
TitleTheBatman == <<"T", "h", "e", " ", "B", "a", "t", "m", "a", "n">>
TitleBatmanBegins == <<"B", "a", "t", "m", "a", "n", " ", "B", "e", "g", "i", "n", "s">>
TitleBatmanBeginsLower == <<"b", "a", "t", "m", "a", "n", " ", "b", "e", "g", "i", "n", "s">>
Rating70 == <<"7", ".", "0">>
Rating80 == <<"8", ".", "0">>
NotAvailable == <<"N", "/", "A">>
Year1989 == <<"1", "9", "8", "9">>
Year2005 == <<"2", "0", "0", "5">>
Year2022 == <<"2", "0", "2", "2">>
Bale == <<"b", "a", "l", "e">>

tt2 == <<"t", "t", "2">>
tt3 == <<"t", "t", "3">>
tt4 == <<"t", "t", "4">>

MovieNotFound == <<"M", "o", "v", "i", "e", " ", "n", "o", "t", " ", "f", "o", "u", "n", "d", "!">>
InvalidApiKey == <<"I", "n", "v", "a", "l", "i", "d", " ", "A", "P", "I", " ", "k", "e", "y", "!">>
IncorrectImdbId ==
    <<"I", "n", "c", "o", "r", "r", "e", "c", "t", " ", "I", "M", "D", "b", " ", "I", "D", ".">>
TooManyResults == <<"T", "o", "o", " ", "m", "a", "n", "y", " ", "r", "e", "s", "u", "l", "t", "s", ".">>

\* OMDB ?i=<id>: the detail record of tt2, an id refused as malformed, and
\* Response "False" with "Movie not found!" for the rest
OmdbDetailReply(movie_id) ==
    IF movie_id = tt2
    THEN [Response |-> "True", Title |-> TitleBatmanBegins, Year |-> Year2005, imdbID |-> tt2,
          Type |-> <<"m", "o", "v", "i", "e">>,
          Actors |-> <<"B", "a", "l", "e", ",", " ", "C", "a", "i", "n", "e">>,
          Genre |-> NotAvailable, imdbRating |-> Rating80]
    ELSE IF movie_id = tt4
    THEN [Response |-> "False", Error |-> IncorrectImdbId]
    ELSE [Response |-> "False", Error |-> MovieNotFound]

\* rows of an OMDB ?s= answer: rows that carry an imdbID (tt2 has a detail
\* record, tt3 has none) and a row that carries no imdbID
OmdbRow(movie_id) ==
    [imdbID |-> movie_id, Title |-> TitleBatman, Year |-> Year1989,
     Type |-> <<"m", "o", "v", "i", "e">>]
OmdbRowNoId ==
    [imdbID |-> <<>>, Title |-> TitleTheBatman, Year |-> Year2022,
     Type |-> <<"M", "o", "v", "i", "e">>]
OmdbRows == {OmdbRow(tt2), OmdbRow(tt3), OmdbRowNoId}

\* TMDB rows and detail records, by TMDB id; vote_average in tenths
TmdbMovieRow(id) ==
    IF id = 1
    THEN [id |-> 1, title |-> TitleBatmanBeginsLower,
          release_date |-> <<"2", "0", "0", "5", "-", "0", "6", "-", "1", "5">>,
          vote_average |-> 77]
    ELSE [id |-> id, title |-> <<"J", "o", "k", "e", "r">>,
          release_date |-> <<>>, vote_average |-> 0]

\* the TMDB id whose /movie/{id} request fails
TmdbGoneId == 4
TmdbMovieDetailOk(id) == id /= TmdbGoneId

TmdbMovieDetail(id) ==
    IF id = 1
    THEN [title |-> TitleBatmanBeginsLower,
          release_date |-> <<"2", "0", "0", "5", "-", "0", "6", "-", "1", "5">>,
          imdb_id |-> tt2, vote_average |-> 77,
          cast |-> <<<<"B", "a", "l", "e">>, <<"C", "a", "i", "n", "e">>>>,
          genres |-> <<<<"A", "c", "t", "i", "o", "n">>>>]
    ELSE [title |-> <<"J", "o", "k", "e", "r">>, release_date |-> <<>>,
          imdb_id |-> None, vote_average |-> 0, cast |-> <<>>, genres |-> <<>>]

TmdbTvRow(id) ==
    [id |-> id, name |-> TitleBatman,
     first_air_date |-> <<"1", "9", "6", "6", "-", "0", "1", "-", "1", "2">>,
     vote_average |-> 75]

TmdbTvDetail(id) ==
    [name |-> TitleBatman,
     first_air_date |-> <<"1", "9", "6", "6", "-", "0", "1", "-", "1", "2">>,
     vote_average |-> 75, cast |-> <<<<"W", "e", "s", "t">>>>, genres |-> <<>>]

(***************************************************************************)
(* app/core/exceptions.py and results of a call                            *)
(***************************************************************************)
ExternalAPIError(text, upstream_msg) ==
    [status |-> "ExternalAPIError", detail |-> text, upstream_msg |-> upstream_msg]
NotFoundError(text) == [status |-> "NotFoundError", detail |-> text]

(***************************************************************************)
(* app/services/external_apis/omdb_client.py                               *)
(***************************************************************************)
omdb_api_key == <<"k">>
tmdb_api_key == <<"k">>

MovieTypeName == [t \in MovieType |->
    IF t = MOVIE THEN <<"m", "o", "v", "i", "e">>
    ELSE IF t = SERIES THEN <<"s", "e", "r", "i", "e", "s">>
    ELSE <<"e", "p", "i", "s", "o", "d", "e">>]

\* OMDBClient._map_type
MapType(omdb_type) ==
    IF \E t \in MovieType : MovieTypeName[t] = Lower(omdb_type)
    THEN CHOOSE t \in MovieType : MovieTypeName[t] = Lower(omdb_type)
    ELSE None

\* data.get(field, "") if data.get(field) != "N/A" else None
UnlessNA(value) == IF value = NotAvailable THEN None ELSE value

\* OMDBClient._transform_response
OmdbTransformResponse(data) ==
    Movie(data.Title, data.Year, data.imdbID, MapType(data.Type),
          UnlessNA(data.Actors), UnlessNA(data.Genre), UnlessNA(data.imdbRating))

\* OMDBClient._transform_search_result: a search row has no Actors, Genre
\* or imdbRating, so data.get(..., "") gives ""
OmdbTransformSearchResult(data) ==
    Movie(data.Title, data.Year, data.imdbID, MapType(data.Type), <<>>, <<>>, <<>>)

\* OMDBClient._matches_filters and TMDBClient._matches_filters (same body)
MatchesFilters(movie, params) ==
    /\ ~(Truthy(params.actors) /\ Truthy(movie.actors)
         /\ ~TokenMatch(params.actors, movie.actors))
    /\ ~(Truthy(params.genre) /\ Truthy(movie.genre)
         /\ ~TokenMatch(params.genre, movie.genre))

OmdbSearchKey(params) ==
    GenerateKey(<<"omdb_search">>,
                <<KwArg("title", params.title), KwArg("actors", params.actors),
                  KwArg("genre", params.genre), KwArg("type", params.type),
                  KwArg("year", params.year)>>)

OmdbDetailsKey(movie_id) == GenerateKey(<<"omdb_details", movie_id>>, <<>>)

\* OMDBClient._get_detailed_movie_info at time t: the Movie or None, the
\* cache afterwards, the HTTP requests issued
OmdbGetDetailedMovieInfo(movie_id, c, t) ==
    LET got == CacheGet(c, OmdbDetailsKey(movie_id), t)
        response == OmdbDetailReply(movie_id)
        movie == OmdbTransformResponse(response)
    IN IF TruthyValue(got.value)
       THEN [found |-> TRUE, movie |-> got.value.v[1], cache |-> got.cache, http |-> 0]
       ELSE IF response.Response = "False"
       THEN [found |-> FALSE, movie |-> None, cache |-> got.cache, http |-> 1]
       ELSE [found |-> TRUE, movie |-> movie,
             cache |-> CacheSet(got.cache, OmdbDetailsKey(movie_id), MovieValue(movie), t),
             http |-> 1]

\* a loop that ends at the first row whose detail fetch fails
RECURSIVE OmdbProcessRowsStopping(_, _, _, _, _, _)
OmdbProcessRowsStopping(search_results, params, c, t, movies, http) ==
    IF search_results = <<>> THEN [movies |-> movies, cache |-> c, http |-> http]
    ELSE LET movie_data == Head(search_results)
             detailed == OmdbGetDetailedMovieInfo(movie_data.imdbID, c, t)
             basic == OmdbTransformSearchResult(movie_data)
         IN IF Truthy(movie_data.imdbID)
            THEN IF ~detailed.found
                 THEN [movies |-> movies, cache |-> detailed.cache,
                       http |-> http + detailed.http]
                 ELSE OmdbProcessRowsStopping(Tail(search_results), params, detailed.cache, t,
                          IF MatchesFilters(detailed.movie, params)
                          THEN Append(movies, detailed.movie) ELSE movies,
                          http + detailed.http)
            ELSE OmdbProcessRowsStopping(Tail(search_results), params, c, t,
                     IF MatchesFilters(basic, params) THEN Append(movies, basic) ELSE movies,
                     http)

\* the loop over search_results (lines 71-87): rows left, movies so far
RECURSIVE OmdbProcessRows(_, _, _, _, _, _)
OmdbProcessRows(search_results, params, c, t, movies, http) ==
    IF search_results = <<>> THEN [movies |-> movies, cache |-> c, http |-> http]
    ELSE LET movie_data == Head(search_results)
             detailed == OmdbGetDetailedMovieInfo(movie_data.imdbID, c, t)
             basic == OmdbTransformSearchResult(movie_data)
         IN IF Truthy(movie_data.imdbID)
            THEN OmdbProcessRows(Tail(search_results), params, detailed.cache, t,
                     IF detailed.found /\ MatchesFilters(detailed.movie, params)
                     THEN Append(movies, detailed.movie) ELSE movies,
                     http + detailed.http)
            ELSE OmdbProcessRows(Tail(search_results), params, c, t,
                     IF MatchesFilters(basic, params) THEN Append(movies, basic) ELSE movies,
                     http)

\* a store that keeps only the first movie of the list it returns
OmdbSearchStoreFirstOnly(key, t, done) ==
    [result |-> Valid, movies |-> done.movies,
     cache |-> CacheSet(done.cache, key,
                        ListValue(IF done.movies = <<>> THEN <<>>
                                  ELSE <<Head(done.movies)>>), t),
     http |-> done.http]

\* cache_manager.set(cache_key, movies); return movies (lines 91-94)
OmdbSearchStore(key, t, done) ==
    [result |-> Valid, movies |-> done.movies,
     cache |-> CacheSet(done.cache, key, ListValue(done.movies), t), http |-> done.http]

\* every Response "False" of the ?s= request taken for an API error
OmdbSearchErrorGeneric(error_msg) == ExternalAPIError("OMDB API error: ", error_msg)

\* the outcome of a ?s= reply with Response "False" and error text error_msg
\* (lines 59-65); Valid stands for `return []`
OmdbSearchError(error_msg) ==
    IF Contains(Lower(<<"n", "o", "t", " ", "f", "o", "u", "n", "d">>), Lower(error_msg))
    THEN Valid
    ELSE IF Contains(<<"i", "n", "v", "a", "l", "i", "d", " ", "a", "p", "i", " ", "k", "e", "y">>,
                     Lower(error_msg))
    THEN ExternalAPIError(
             "Invalid OMDB API key. Please check your API key configuration.", <<>>)
    ELSE ExternalAPIError("OMDB API error: ", error_msg)

\* a search that stores an empty list under its key before it raises
OmdbSearchFetchStoringOnError(params, key, c, t, response) ==
    IF response.Response = "Raise"
    THEN [result |-> ExternalAPIError("HTTP error occurred", <<>>), movies |-> <<>>,
          cache |-> CacheSet(c, key, ListValue(<<>>), t), http |-> 1]
    ELSE IF response.Response = "False"
    THEN [result |-> OmdbSearchError(response.Error), movies |-> <<>>,
          cache |-> IF OmdbSearchError(response.Error) = Valid THEN c
                    ELSE CacheSet(c, key, ListValue(<<>>), t),
          http |-> 1]
    ELSE OmdbSearchStore(key, t, OmdbProcessRows(response.Search, params, c, t, <<>>, 1))

\* what OMDBClient.search_movies does with the answer to its ?s= request
OmdbSearchFetch(params, key, c, t, response) ==
    IF response.Response = "Raise"
    THEN [result |-> ExternalAPIError("HTTP error occurred", <<>>), movies |-> <<>>,
          cache |-> c, http |-> 1]
    ELSE IF response.Response = "False"
    THEN [result |-> OmdbSearchError(response.Error), movies |-> <<>>,
          cache |-> c, http |-> 1]
    ELSE OmdbSearchStore(key, t, OmdbProcessRows(response.Search, params, c, t, <<>>, 1))

\* OMDBClient.search_movies at time t against the cache c: the outcome, the
\* list returned, the cache afterwards and the HTTP requests issued
OmdbSearchMovies(params, c, t, response) ==
    LET cache_key == OmdbSearchKey(params)
        got == CacheGet(c, cache_key, t)
    IN IF ~Truthy(omdb_api_key)
       THEN [result |-> ExternalAPIError("OMDB API key is not configured", <<>>),
             movies |-> <<>>, cache |-> c, http |-> 0]
       ELSE IF TruthyValue(got.value)
       THEN [result |-> Valid, movies |-> got.value.v, cache |-> got.cache, http |-> 0]
       ELSE OmdbSearchFetch(params, cache_key, got.cache, t, response)

\* every Response "False" of the ?i= request taken for an API error
OmdbDetailsErrorGeneric(error_msg) == ExternalAPIError("OMDB API error: ", error_msg)

\* OMDBClient.get_movie_details, lines 125-131: the error raised for a
\* Response "False"
OmdbDetailsError(error_msg) ==
    IF Contains(<<"n", "o", "t", " ", "f", "o", "u", "n", "d">>, Lower(error_msg))
    THEN NotFoundError("Movie not found")
    ELSE IF Contains(<<"i", "n", "v", "a", "l", "i", "d", " ", "a", "p", "i", " ", "k", "e", "y">>,
                     Lower(error_msg))
    THEN ExternalAPIError("Invalid OMDB API key. Please check your API key configuration.",
                          <<>>)
    ELSE ExternalAPIError("OMDB API error: ", error_msg)

\* OMDBClient.get_movie_details at time t
OmdbGetMovieDetails(movie_id, c, t) ==
    LET cache_key == OmdbDetailsKey(movie_id)
        got == CacheGet(c, cache_key, t)
        response == OmdbDetailReply(movie_id)
        movie == OmdbTransformResponse(response)
    IN IF ~Truthy(omdb_api_key)
       THEN [result |-> ExternalAPIError("OMDB API key is not configured", <<>>),
             movie |-> None, cache |-> c, http |-> 0]
       ELSE IF TruthyValue(got.value)
       THEN [result |-> Valid, movie |-> got.value.v[1], cache |-> got.cache, http |-> 0]
       ELSE IF response.Response = "False"
       THEN [result |-> OmdbDetailsError(response.Error), movie |-> None,
             cache |-> got.cache, http |-> 1]
       ELSE [result |-> Valid, movie |-> movie,
             cache |-> CacheSet(got.cache, cache_key, MovieValue(movie), t), http |-> 1]

(***************************************************************************)
(* app/services/external_apis/tmdb_client.py                               *)
(***************************************************************************)
\* str(n) for a natural number
RECURSIVE NatStr(_)
NatStr(n) ==
    IF n < 10 THEN <<DigitChars[n + 1]>>
    ELSE NatStr(n \div 10) \o <<DigitChars[(n % 10) + 1]>>

\* str(vote_average) for a float given in tenths: 77 is "7.7", 80 is "8.0"
FloatStr10(v) == NatStr(v \div 10) \o <<".">> \o <<DigitChars[(v % 10) + 1]>>

\* ", ".join(names)
RECURSIVE JoinComma(_)
JoinComma(names) ==
    IF names = <<>> THEN <<>>
    ELSE IF Len(names) = 1 THEN names[1]
    ELSE names[1] \o <<",", " ">> \o JoinComma(Tail(names))

\* date[:4] if date else None
YearOfDate(date) == IF date = <<>> THEN None ELSE SubSeq(date, 1, IF Len(date) < 4 THEN Len(date) ELSE 4)

VoteStr(vote_average) == IF vote_average = 0 THEN None ELSE FloatStr10(vote_average)

\* a release_date or first_air_date that is a JSON number, not a string:
\* slicing it with [:4] raises TypeError
NumberDate == <<"#number">>

\* building the Movie of a row raises (lines 251-281, caught at 282)
TmdbTransformRaises(data, content_type) ==
    IF content_type = MOVIE THEN data.release_date = NumberDate
    ELSE data.first_air_date = NumberDate

\* TMDBClient._transform_search_result: the Movie, or None when building
\* it raises
TmdbTransformSearchResult(data, content_type) ==
    IF TmdbTransformRaises(data, content_type) THEN None
    ELSE IF content_type = MOVIE
    THEN Movie(data.title, YearOfDate(data.release_date), None, MOVIE, None, None,
               VoteStr(data.vote_average))
    ELSE Movie(data.name, YearOfDate(data.first_air_date), None, SERIES, None, None,
               VoteStr(data.vote_average))

\* TMDBClient._transform_detailed_movie_response
TmdbTransformDetailedMovieResponse(data) ==
    LET actors == JoinComma(SubSeq(data.cast, 1, IF Len(data.cast) < 5 THEN Len(data.cast) ELSE 5))
    IN Movie(data.title, YearOfDate(data.release_date), data.imdb_id, MOVIE,
             IF actors = <<>> THEN None ELSE actors,
             IF data.genres = <<>> THEN None ELSE JoinComma(data.genres),
             VoteStr(data.vote_average))

\* TMDBClient._transform_detailed_tv_response
TmdbTransformDetailedTvResponse(data) ==
    LET actors == JoinComma(SubSeq(data.cast, 1, IF Len(data.cast) < 5 THEN Len(data.cast) ELSE 5))
    IN Movie(data.name, YearOfDate(data.first_air_date), None, SERIES,
             IF actors = <<>> THEN None ELSE actors,
             IF data.genres = <<>> THEN None ELSE JoinComma(data.genres),
             VoteStr(data.vote_average))

TmdbSearchKey(params) ==
    GenerateKey(<<"tmdb_search">>,
                <<KwArg("title", params.title), KwArg("actors", params.actors),
                  KwArg("genre", params.genre), KwArg("type", params.type),
                  KwArg("year", params.year)>>)

TmdbMovieDetailsKey(movie_id) == GenerateKey(<<"tmdb_movie_details", movie_id>>, <<>>)
TmdbTvDetailsKey(tv_id) == GenerateKey(<<"tmdb_tv_details", tv_id>>, <<>>)

\* TMDBClient._get_detailed_movie_info / _get_detailed_tv_info at time t
TmdbGetDetailed(cache_key, ok, movie, c, t) ==
    LET got == CacheGet(c, cache_key, t)
    IN IF TruthyValue(got.value)
       THEN [found |-> TRUE, movie |-> got.value.v[1], cache |-> got.cache, http |-> 0]
       ELSE IF ~ok
       THEN [found |-> FALSE, movie |-> None, cache |-> got.cache, http |-> 1]
       ELSE [found |-> TRUE, movie |-> movie,
             cache |-> CacheSet(got.cache, cache_key, MovieValue(movie), t), http |-> 1]

TmdbGetDetailedMovieInfo(movie_id, c, t) ==
    TmdbGetDetailed(TmdbMovieDetailsKey(movie_id), TmdbMovieDetailOk(movie_id),
                    TmdbTransformDetailedMovieResponse(TmdbMovieDetail(movie_id)), c, t)

TmdbGetDetailedTvInfo(tv_id, c, t) ==
    TmdbGetDetailed(TmdbTvDetailsKey(tv_id), TRUE,
                    TmdbTransformDetailedTvResponse(TmdbTvDetail(tv_id)), c, t)

\* the loops over results in _search_movies_only and _search_tv_shows
RECURSIVE TmdbProcessRows(_, _, _, _, _, _, _)
TmdbProcessRows(results, content_type, params, c, t, movies, http) ==
    IF results = <<>>
    THEN [result |-> Valid, movies |-> movies, cache |-> c, http |-> http]
    ELSE LET data == Head(results)
             detailed == IF content_type = MOVIE THEN TmdbGetDetailedMovieInfo(data.id, c, t)
                         ELSE TmdbGetDetailedTvInfo(data.id, c, t)
             basic == TmdbTransformSearchResult(data, content_type)
         IN IF Truthy(params.actors) \/ Truthy(params.genre)
            THEN TmdbProcessRows(Tail(results), content_type, params, detailed.cache, t,
                                 IF detailed.found THEN Append(movies, detailed.movie)
                                 ELSE movies,
                                 http + detailed.http)
            ELSE TmdbProcessRows(Tail(results), content_type, params, c, t,
                                 IF TmdbTransformRaises(data, content_type) THEN movies
                                 ELSE Append(movies, basic),
                                 http)

\* TMDBClient._search_movies_only / _search_tv_shows given the endpoint's answer
TmdbSearchEndpoint(response, content_type, params, c, t) ==
    IF ~response.ok
    THEN [result |-> ExternalAPIError("Failed to search from TMDB", <<>>), movies |-> <<>>,
          cache |-> c, http |-> 1]
    ELSE TmdbProcessRows(response.results, content_type, params, c, t, <<>>, 1)

\* TMDBClient._matches_filters
TmdbMatchesFilters(movie, params) ==
    /\ ~(Truthy(params.actors) /\ Truthy(movie.actors)
         /\ ~TokenMatch(params.actors, movie.actors))
    /\ ~(Truthy(params.genre) /\ Truthy(movie.genre)
         /\ ~TokenMatch(params.genre, movie.genre))

\* TMDBClient._remove_duplicates
RECURSIVE RemoveDuplicates(_, _)
RemoveDuplicates(movies, unique_movies) ==
    IF movies = <<>> THEN unique_movies
    ELSE RemoveDuplicates(Tail(movies),
             IF MovieKey(Head(movies)) \in {MovieKey(unique_movies[i]) : i \in 1..Len(unique_movies)}
             THEN unique_movies ELSE Append(unique_movies, Head(movies)))

\* cache_manager.set(cache_key, unique_movies); return unique_movies (lines 60-63)
TmdbSearchStore(cache_key, t, c, http, unique_movies) ==
    [result |-> Valid, movies |-> unique_movies,
     cache |-> CacheSet(c, cache_key, ListValue(unique_movies), t), http |-> http]

\* the filters and the removal of duplicates over both endpoints' movies
\* (lines 50-58)
TmdbSearchFinish(params, cache_key, t, first, second) ==
    IF second.result /= Valid
    THEN [result |-> second.result, movies |-> <<>>, cache |-> second.cache,
          http |-> first.http + second.http]
    ELSE TmdbSearchStore(cache_key, t, second.cache, first.http + second.http,
             RemoveDuplicates(SelectSeq(first.movies \o second.movies,
                                        LAMBDA movie : TmdbMatchesFilters(movie, params)),
                              <<>>))

\* the TV endpoint after the movie endpoint when no type is given (lines 46-48)
TmdbSearchSecond(params, cache_key, t, tv_response, first) ==
    TmdbSearchFinish(params, cache_key, t, first,
        IF params.type \in {SERIES, MOVIE} \/ first.result /= Valid
        THEN [result |-> first.result, movies |-> <<>>, cache |-> first.cache, http |-> 0]
        ELSE TmdbSearchEndpoint(tv_response, SERIES, params, first.cache, t))

\* TMDBClient.search_movies after a cache miss (lines 39-63)
TmdbSearchFetch(params, cache_key, c, t, movie_response, tv_response) ==
    TmdbSearchSecond(params, cache_key, t, tv_response,
        IF params.type = SERIES
        THEN TmdbSearchEndpoint(tv_response, SERIES, params, c, t)
        ELSE TmdbSearchEndpoint(movie_response, MOVIE, params, c, t))

\* TMDBClient.search_movies at time t against the cache c
TmdbSearchMovies(params, c, t, movie_response, tv_response) ==
    LET cache_key == TmdbSearchKey(params)
        got == CacheGet(c, cache_key, t)
    IN IF ~Truthy(tmdb_api_key)
       THEN [result |-> ExternalAPIError("TMDB API key is not configured", <<>>),
             movies |-> <<>>, cache |-> c, http |-> 0]
       ELSE IF TruthyValue(got.value)
       THEN [result |-> Valid, movies |-> got.value.v, cache |-> got.cache, http |-> 0]
       ELSE TmdbSearchFetch(params, cache_key, got.cache, t, movie_response, tv_response)

(***************************************************************************)
(* app/services/movie_service.py: the request handlers                     *)
(***************************************************************************)
\* what a request saw of one provider's search call
NotCalled ==
    [called |-> FALSE, live |-> FALSE, stored |-> NoValue, result |-> Valid,
     movies |-> <<>>, http |-> 0]

Observed(key, c, t, out) ==
    [called |-> TRUE, live |-> Live(c, key, t),
     stored |-> IF Live(c, key, t) THEN c[IndexOf(c, key)].value ELSE NoValue,
     result |-> out.result, movies |-> out.movies, http |-> out.http]

NoResponse == SearchResponse(<<>>, 0, 0, 0)

\* search_movies with the except clause of lines 27-30 removed
SearchMergedRaising(params, c, t, omdb, tmdb) ==
    IF tmdb.result /= Valid
    THEN [result |-> tmdb.result, response |-> NoResponse, cache |-> tmdb.cache,
          omdb |-> Observed(OmdbSearchKey(params), c, t, omdb),
          tmdb |-> Observed(TmdbSearchKey(params), omdb.cache, t, tmdb)]
    ELSE [result |-> Valid, response |-> Respond(omdb.movies, tmdb.movies, params),
          cache |-> tmdb.cache,
          omdb |-> Observed(OmdbSearchKey(params), c, t, omdb),
          tmdb |-> Observed(TmdbSearchKey(params), omdb.cache, t, tmdb)]

\* search_movies once both providers have answered (lines 24-55): a TMDB
\* failure is absorbed
SearchMerged(params, c, t, omdb, tmdb) ==
    [result |-> Valid,
     response |-> Respond(omdb.movies, IF tmdb.result = Valid THEN tmdb.movies ELSE <<>>,
                          params),
     cache |-> tmdb.cache,
     omdb |-> Observed(OmdbSearchKey(params), c, t, omdb),
     tmdb |-> Observed(TmdbSearchKey(params), omdb.cache, t, tmdb)]

\* search_movies once OMDB has answered (line 22): an OMDB failure propagates
SearchProviders(params, c, t, u, omdb) ==
    IF omdb.result /= Valid
    THEN [result |-> omdb.result, response |-> NoResponse, cache |-> omdb.cache,
          omdb |-> Observed(OmdbSearchKey(params), c, t, omdb), tmdb |-> NotCalled]
    ELSE SearchMerged(params, c, t, omdb,
                      TmdbSearchMovies(params, omdb.cache, t, u.tmdb_movie, u.tmdb_tv))

\* MovieService.search_movies at time t against the cache c and the
\* upstream answers u: the outcome, the response, the cache afterwards
SearchMoviesValidatingLast(params, c, t, u) ==
    IF OmdbSearchMovies(params, c, t, u.omdb_search).result = Valid
       /\ ValidateSearchParams(params) /= Valid
    THEN [SearchProviders(params, c, t, u, OmdbSearchMovies(params, c, t, u.omdb_search))
             EXCEPT !.result = ValidateSearchParams(params), !.response = NoResponse]
    ELSE SearchProviders(params, c, t, u, OmdbSearchMovies(params, c, t, u.omdb_search))

SearchMovies(params, c, t, u) ==
    IF ValidateSearchParams(params) /= Valid
    THEN [result |-> ValidateSearchParams(params), response |-> NoResponse, cache |-> c,
          omdb |-> NotCalled, tmdb |-> NotCalled]
    ELSE SearchProviders(params, c, t, u, OmdbSearchMovies(params, c, t, u.omdb_search))

\* get_movie_details without the test of lines 59-60
GetMovieDetailsUnvalidated(movie_id, c, t) ==
    [result |-> OmdbGetMovieDetails(movie_id, c, t).result,
     movie |-> OmdbGetMovieDetails(movie_id, c, t).movie,
     cache |-> OmdbGetMovieDetails(movie_id, c, t).cache,
     http |-> OmdbGetMovieDetails(movie_id, c, t).http, called |-> TRUE]

\* MovieService.get_movie_details
GetMovieDetails(movie_id, c, t) ==
    IF ~Truthy(movie_id)
    THEN [result |-> ValidationError("Movie ID is required"), movie |-> None, cache |-> c,
          http |-> 0, called |-> FALSE]
    ELSE LET out == OmdbGetMovieDetails(movie_id, c, t)
         IN [result |-> out.result, movie |-> out.movie, cache |-> out.cache,
             http |-> out.http, called |-> TRUE]

(***************************************************************************)
(* The service as a state machine: requests arrive one at a time, the      *)
(* clock advances between them, the debug endpoint clears the cache.       *)
(***************************************************************************)
MaxOmdbRows == 2
MaxPage == 3
MaxLimit == 2
MaxTime == ttl
TickStep == ttl

\* lists without repetition
DistinctLists(elems, n) ==
    {l \in UNION {[1..k -> elems] : k \in 0..n} : \A i, j \in 1..Len(l) : l[i] = l[j] => i = j}

\* answers of the OMDB ?s= endpoint: a result page, the three kinds of
\* Response "False", a transport failure raised by HTTPClient.get
OmdbSearchReplies ==
    {[Response |-> "True", Search |-> rows] : rows \in DistinctLists(OmdbRows, MaxOmdbRows)}
    \cup {[Response |-> "False", Error |-> msg] :
             msg \in {MovieNotFound, InvalidApiKey, TooManyResults}}
    \cup {[Response |-> "Raise"]}

\* answers of the TMDB /search/movie and /search/tv endpoints: a result
\* page, or a transport failure raised by HTTPClient.get
TmdbMovieReplies ==
    {[ok |-> TRUE, results |-> <<>>], [ok |-> TRUE, results |-> <<TmdbMovieRow(1)>>],
     [ok |-> TRUE, results |-> <<TmdbMovieRow(2)>>], [ok |-> FALSE, results |-> <<>>]}

TmdbTvReplies ==
    {[ok |-> TRUE, results |-> <<>>], [ok |-> TRUE, results |-> <<TmdbTvRow(3)>>],
     [ok |-> FALSE, results |-> <<>>]}

\* the upstream answers of a run: every answer of one provider against the
\* reference answers of the other
ReferenceOmdb == [Response |-> "True", Search |-> <<OmdbRowNoId, OmdbRow(tt2)>>]
ReferenceTmdbMovie == [ok |-> TRUE, results |-> <<TmdbMovieRow(2)>>]
ReferenceTmdbTv == [ok |-> TRUE, results |-> <<TmdbTvRow(3)>>]

Upstreams ==
    [omdb_search : OmdbSearchReplies, tmdb_movie : {ReferenceTmdbMovie},
     tmdb_tv : {ReferenceTmdbTv}]
    \cup [omdb_search : {ReferenceOmdb}, tmdb_movie : TmdbMovieReplies,
          tmdb_tv : TmdbTvReplies]

\* the filter fields of the queries sent: none, a title, a title with an
\* actor, a content kind alone
QueryFields ==
    {[title |-> None, actors |-> None, type |-> None, genre |-> None, year |-> None],
     [title |-> <<"b", "a", "t", "m", "a", "n">>, actors |-> None, type |-> None,
      genre |-> None, year |-> None],
     [title |-> <<"b", "a", "t", "m", "a", "n">>, actors |-> Bale, type |-> None,
      genre |-> None, year |-> None],
     [title |-> None, actors |-> None, type |-> SERIES, genre |-> None, year |-> None]}

FieldsOf(params) ==
    [title |-> params.title, actors |-> params.actors, type |-> params.type,
     genre |-> params.genre, year |-> params.year]

MovieIds == {<<>>, tt2, tt3, tt4}

NoRequest == [op |-> "none"]
NoSession(fields) == [active |-> FALSE, fields |-> fields]

\* the caller of test_pagination: it asks for pages of one query back to
\* back; page 1 opens a walk over the pages at one page size, the next page
\* in turn extends it, any other request ends it
WalkPages(s, params, out) ==
    IF out.result = Valid /\ params.page = 1
    THEN [active |-> TRUE, fields |-> FieldsOf(params), limit |-> params.limit, next |-> 2,
          collected |-> out.response.movies, sizes |-> <<Len(out.response.movies)>>,
          total_results |-> out.response.total_results,
          total_pages |-> out.response.total_pages, failed |-> FALSE]
    ELSE IF s.active /\ s.fields = FieldsOf(params) /\ s.limit = params.limit
            /\ s.next = params.page
    THEN IF out.result = Valid
         THEN [s EXCEPT !.next = params.page + 1,
                        !.collected = @ \o out.response.movies,
                        !.sizes = Append(@, Len(out.response.movies)),
                        !.failed = @ \/ out.response.total_pages /= s.total_pages
                                     \/ out.response.total_results /= s.total_results]
         ELSE [s EXCEPT !.next = params.page + 1, !.sizes = Append(@, 0), !.failed = TRUE]
    ELSE NoSession(s.fields)

Init ==
    /\ cache = <<>>
    /\ now = 0
    /\ upstream \in Upstreams
    /\ last = NoRequest
    /\ session \in {NoSession(fields) : fields \in QueryFields}
    /\ call = <<>>
    /\ ret = <<>>
    /\ pc = "idle"

\* GET /api/v1/movies/search
SearchRequest ==
    \E fields \in {session.fields}, page \in 1..MaxPage, limit \in 1..MaxLimit :
        \E params \in {MovieSearchParams(fields.title, fields.actors, fields.type,
                                          fields.genre, fields.year, page, limit)} :
        \E out \in {SearchMovies(params, cache, now, upstream)} :
           /\ cache' = out.cache
           /\ last' = [op |-> "search_movies", params |-> params, result |-> out.result,
                       response |-> out.response, omdb |-> out.omdb, tmdb |-> out.tmdb,
                       cache_changed |-> out.cache /= cache]
           /\ session' = WalkPages(session, params, out)
           /\ UNCHANGED <<now, upstream, call, ret, pc>>

\* GET /api/v1/movies/{movie_id}
DetailsRequest ==
    \E movie_id \in MovieIds :
        \E out \in {GetMovieDetails(movie_id, cache, now)} :
           /\ cache' = out.cache
           /\ last' = [op |-> "get_movie_details", movie_id |-> movie_id,
                       result |-> out.result, movie |-> out.movie, http |-> out.http,
                       called |-> out.called,
                       live |-> Live(cache, OmdbDetailsKey(movie_id), now),
                       stored |-> IF Live(cache, OmdbDetailsKey(movie_id), now)
                                  THEN cache[IndexOf(cache, OmdbDetailsKey(movie_id))].value
                                  ELSE NoValue,
                       stored_keys |-> {out.cache[i].key : i \in 1..Len(out.cache)}
                                           \ {cache[i].key : i \in 1..Len(cache)}]
           /\ session' = NoSession(session.fields)
           /\ UNCHANGED <<now, upstream, call, ret, pc>>

\* DELETE /api/v1/debug/cache/clear: cache_manager.clear()
ClearCache ==
    /\ cache' = <<>>
    /\ last' = [op |-> "clear", cache_size |-> CacheSize(<<>>, now)]
    /\ session' = NoSession(session.fields)
    /\ UNCHANGED <<now, upstream, call, ret, pc>>

\* time passes
Tick ==
    /\ now + TickStep <= MaxTime
    /\ now' = now + TickStep
    /\ UNCHANGED <<cache, upstream, last, session, call, ret, pc>>

Next == SearchRequest \/ DetailsRequest \/ ClearCache \/ Tick

Spec == Init /\ [][Next]_vars

(***************************************************************************)
(* Two calls of search_movies for one query: the calls of test_pagination  *)
(* (example_usage.py), which differ in page and limit only.  Time may pass *)
(* and the cache may be cleared between them.                              *)
(***************************************************************************)
InitPair ==
    /\ cache = <<>>
    /\ now = 0
    /\ upstream \in Upstreams
    /\ last = NoRequest
    /\ session \in {NoSession(fields) : fields \in QueryFields}
    /\ call = NoRequest
    /\ ret = <<>>
    /\ pc = "first"

Searched(params, out, c) ==
    [op |-> "search_movies", params |-> params, result |-> out.result,
     response |-> out.response, omdb |-> out.omdb, tmdb |-> out.tmdb,
     cache_changed |-> out.cache /= c]

PairFirst ==
    /\ pc = "first"
    /\ \E page \in 1..MaxPage, limit \in 1..MaxLimit :
       \E params \in {MovieSearchParams(session.fields.title, session.fields.actors,
                                        session.fields.type, session.fields.genre,
                                        session.fields.year, page, limit)} :
       \E out \in {SearchMovies(params, cache, now, upstream)} :
          /\ cache' = out.cache
          /\ call' = Searched(params, out, cache)
    /\ pc' = "between"
    /\ UNCHANGED <<now, upstream, last, session, ret>>

PairTick ==
    /\ pc = "between"
    /\ now + TickStep <= MaxTime
    /\ now' = now + TickStep
    /\ pc' = "later"
    /\ UNCHANGED <<cache, upstream, last, session, call, ret>>

PairClear ==
    /\ pc = "between"
    /\ cache' = <<>>
    /\ pc' = "cleared"
    /\ UNCHANGED <<now, upstream, last, session, call, ret>>

PairSecond ==
    /\ pc \in {"between", "later", "cleared"}
    /\ \E page \in 1..MaxPage, limit \in 1..MaxLimit :
       \E params \in {MovieSearchParams(session.fields.title, session.fields.actors,
                                        session.fields.type, session.fields.genre,
                                        session.fields.year, page, limit)} :
       \E out \in {SearchMovies(params, cache, now, upstream)} :
          /\ cache' = out.cache
          /\ last' = Searched(params, out, cache)
    /\ ret' = pc
    /\ pc' = "done"
    /\ UNCHANGED <<now, upstream, session, call>>

NextPair == PairFirst \/ PairTick \/ PairClear \/ PairSecond

SpecPair == InitPair /\ [][NextPair]_vars

(***************************************************************************)
(* Properties of the request handlers                                      *)
(***************************************************************************)
AllEmpty(params) ==
    /\ ~Truthy(params.title) /\ ~Truthy(params.actors) /\ ~Truthy(params.type)
    /\ ~Truthy(params.genre) /\ ~Truthy(params.year)

\* C1: search_movies on a query whose title, actors, type, genre and year
\* are all empty fails with ValidationError before any provider search: no
\* provider is called, no upstream request is made, the cache is unchanged.
C1_EmptyQueryRejectedFirst ==
    (last.op = "search_movies" /\ AllEmpty(last.params)) =>
        /\ last.result.status = "ValidationError"
        /\ ~last.omdb.called /\ ~last.tmdb.called
        /\ last.omdb.http = 0 /\ last.tmdb.http = 0
        /\ ~last.cache_changed

\* an empty query was rejected while the cache held an entry
C1_Witness ==
    /\ last.op = "search_movies"
    /\ AllEmpty(last.params)
    /\ last.result.status = "ValidationError"
    /\ Len(cache) > 0

\* C5: every SearchResponse has total_pages = ceil(total_results / limit)
\* when total_results > 0 and 0 otherwise, and at most limit movies.
C5_TotalPagesIsCeiling ==
    (last.op = "search_movies" /\ last.result = Valid) =>
        /\ last.response.total_results > 0 =>
              /\ last.response.total_pages * last.params.limit >= last.response.total_results
              /\ (last.response.total_pages - 1) * last.params.limit
                     < last.response.total_results
        /\ last.response.total_results = 0 => last.response.total_pages = 0
        /\ Len(last.response.movies) <= last.params.limit

\* a response whose last page is partial: 3 results at size 2
C5_Witness ==
    /\ last.op = "search_movies"
    /\ last.result = Valid
    /\ last.params.limit = 2
    /\ last.response.total_results = 3
    /\ last.response.total_pages = 2

FirstPage(fields) ==
    MovieSearchParams(fields.title, fields.actors, fields.type, fields.genre, fields.year,
                      1, 1)

\* the full ranked set of a query: merge, filter and rank of what the
\* providers return on a cold cache
FullRanked(fields, u) ==
    SortMovies(
        ApplyAdditionalFilters(
            MergeMovieResults(
                OmdbSearchMovies(FirstPage(fields), <<>>, 0, u.omdb_search).movies,
                TmdbSearchMovies(FirstPage(fields), <<>>, 0, u.tmdb_movie, u.tmdb_tv).movies),
            FirstPage(fields)),
        FirstPage(fields))

\* C6: for a fixed query, fixed upstream data and a fixed page size s, the
\* pages 1..total_pages in page order make up the full ranked set with no
\* entity twice and none missing, every page but the last has s items, and
\* a page beyond total_pages is empty and no error.
C6_PagesPartitionRankedSet ==
    (session.active /\ session.next > session.total_pages) =>
        /\ ~session.failed
        /\ session.collected = FullRanked(session.fields, upstream)
        /\ \A i, j \in 1..Len(session.collected) :
              session.collected[i] = session.collected[j] => i = j
        /\ \A p \in 1..Len(session.sizes) :
              /\ p < session.total_pages => session.sizes[p] = session.limit
              /\ p = session.total_pages =>
                    session.sizes[p] >= 1 /\ session.sizes[p] <= session.limit
              /\ p > session.total_pages => session.sizes[p] = 0

\* 3 results walked at size 2: 2 items, 1 item, then an empty page 3
C6_Witness ==
    /\ session.active
    /\ ~session.failed
    /\ session.limit = 2
    /\ session.total_pages = 2
    /\ session.sizes = <<2, 1, 0>>
    /\ Len(session.collected) = 3

BothAnswered == pc = "done" /\ call.result = Valid /\ last.result = Valid

\* C7 as stated: total_results and total_pages are identical across two
\* calls that differ only in page and/or limit.
C7_TotalsAndPagesIdentical ==
    BothAnswered =>
        /\ last.response.total_results = call.response.total_results
        /\ last.response.total_pages = call.response.total_pages

\* C7 amended: total_results is identical across two calls that differ only
\* in page and/or limit; total_pages is identical when the two calls have
\* the same limit.
C7_TotalsIdentical ==
    BothAnswered =>
        /\ last.response.total_results = call.response.total_results
        /\ last.params.limit = call.params.limit =>
              last.response.total_pages = call.response.total_pages

\* two calls with different page and limit reported the same 3 results
C7_Witness ==
    /\ BothAnswered
    /\ call.params.limit /= last.params.limit
    /\ call.params.page /= last.params.page
    /\ call.response.total_results = 3
    /\ last.response.total_results = 3

\* a provider call that found a live entry answered with it and made no
\* upstream request
ServedFromCache(obs) ==
    (obs.called /\ obs.live) =>
        /\ obs.result = Valid
        /\ obs.http = 0
        /\ ListValue(obs.movies) = obs.stored

\* a provider call that found no live entry and succeeded fetched upstream
\* and left its result in the cache under key
FetchedAndStored(obs, key) ==
    (obs.called /\ ~obs.live /\ obs.result = Valid) =>
        /\ obs.http >= 1
        /\ HasKey(cache, key)
        /\ cache[IndexOf(cache, key)].value = ListValue(obs.movies)

\* C8: a provider search or detail call that finds a live cache entry under
\* its key returns that entry and makes no upstream request; on a miss it
\* fetches upstream, stores the result and returns it.
C8_LiveEntryServedWithoutRequest ==
    /\ last.op = "search_movies" =>
          /\ ServedFromCache(last.omdb)
          /\ ServedFromCache(last.tmdb)
          /\ FetchedAndStored(last.omdb, OmdbSearchKey(last.params))
          /\ FetchedAndStored(last.tmdb, TmdbSearchKey(last.params))
    /\ (last.op = "get_movie_details" /\ last.called) =>
          /\ last.live =>
                last.result = Valid /\ last.http = 0 /\ MovieValue(last.movie) = last.stored
          /\ (~last.live /\ last.result = Valid) =>
                /\ last.http >= 1
                /\ HasKey(cache, OmdbDetailsKey(last.movie_id))
                /\ cache[IndexOf(cache, OmdbDetailsKey(last.movie_id))].value
                       = MovieValue(last.movie)

\* C9: two provider searches whose parameters differ only in page and/or
\* limit have the same cache key, and the second, made while the entry is
\* live, is served from the entry the first stored.
C9_SecondPageServedFromFirstEntry ==
    (pc = "done" /\ ret = "between" /\ call.result = Valid) =>
        /\ OmdbSearchKey(last.params) = OmdbSearchKey(call.params)
        /\ TmdbSearchKey(last.params) = TmdbSearchKey(call.params)
        /\ last.result = Valid
        /\ last.omdb.http = 0
        /\ last.omdb.movies = call.omdb.movies
        /\ call.tmdb.result = Valid =>
              last.tmdb.http = 0 /\ last.tmdb.movies = call.tmdb.movies

\* C11: in search_movies a failure of the secondary provider (TMDB) is
\* absorbed: the call returns the SearchResponse computed from the primary
\* provider's results alone and signals no error; a failure of the primary
\* provider (OMDB) propagates as that error and no SearchResponse is returned.
C11_SecondaryAbsorbedPrimaryPropagates ==
    last.op = "search_movies" =>
        /\ (last.tmdb.called /\ last.tmdb.result /= Valid) =>
              /\ last.result = Valid
              /\ last.response = Respond(last.omdb.movies, <<>>, last.params)
        /\ (last.omdb.called /\ last.omdb.result /= Valid) =>
              /\ last.result = last.omdb.result
              /\ last.result.status = "ExternalAPIError"
              /\ last.response = NoResponse

\* TMDB failed and the response carries the primary provider's two movies
C11_Witness ==
    /\ last.op = "search_movies"
    /\ last.tmdb.called
    /\ last.tmdb.result.status = "ExternalAPIError"
    /\ last.result = Valid
    /\ Len(last.omdb.movies) = 2
    /\ last.response.total_results = 2

\* the filters a query sets, as stated for the entities of a page
SatisfiesFilters(movie, params) ==
    /\ Truthy(params.actors) => Truthy(movie.actors) /\ TokenMatch(params.actors, movie.actors)
    /\ Truthy(params.genre) => Truthy(movie.genre) /\ TokenMatch(params.genre, movie.genre)
    /\ Truthy(params.type) => movie.type = params.type
    /\ Truthy(params.year) => movie.year = params.year

\* C12: every entity on every page returned by search_movies satisfies
\* every filter the query sets: an actor substring is contained in some
\* comma-split, trimmed, lower-cased token of the entity's cast, likewise for
\* genre, a content kind equals the entity's kind, a year equals its year.
C12_PageEntitiesSatisfyFilters ==
    (last.op = "search_movies" /\ last.result = Valid) =>
        \A i \in 1..Len(last.response.movies) :
            SatisfiesFilters(last.response.movies[i], last.params)

\* the upstream answers the ?i= request for movie_id with Response "False"
\* and an error text that says "not found"
ReportedNotFound(movie_id) ==
    /\ OmdbDetailReply(movie_id).Response = "False"
    /\ Contains(<<"n", "o", "t", " ", "f", "o", "u", "n", "d">>,
                Lower(OmdbDetailReply(movie_id).Error))

\* C14: get_movie_details for a non-empty id that the primary provider's
\* upstream reports as not found raises NotFoundError, never
\* ExternalAPIError, and stores nothing in the cache for that id.
C14_NotFoundRaisedNothingStored ==
    (last.op = "get_movie_details" /\ Truthy(last.movie_id)
     /\ ReportedNotFound(last.movie_id)) =>
        /\ last.result.status = "NotFoundError"
        /\ last.http = 1
        /\ ~HasKey(cache, OmdbDetailsKey(last.movie_id))

\* tt3 was reported not found while the cache held other entries
C14_Witness ==
    /\ last.op = "get_movie_details"
    /\ last.movie_id = tt3
    /\ last.result.status = "NotFoundError"
    /\ Len(cache) > 0

\* C15: get_movie_details with an empty id fails with ValidationError and
\* calls no provider; with a non-empty id it calls the primary provider
\* (OMDB) alone, never the secondary one, and returns the primary's entity
\* or propagates the primary's error unchanged.
C15_DetailsFromPrimaryOnly ==
    last.op = "get_movie_details" =>
        /\ ~Truthy(last.movie_id) =>
              /\ last.result = ValidationError("Movie ID is required")
              /\ ~last.called /\ last.http = 0 /\ last.stored_keys = {}
        /\ Truthy(last.movie_id) =>
              /\ last.called
              /\ last.stored_keys \subseteq {OmdbDetailsKey(last.movie_id)}
              /\ last.live =>
                    last.result = Valid /\ last.http = 0 /\ last.movie = last.stored.v[1]
              /\ (~last.live /\ OmdbDetailReply(last.movie_id).Response = "True") =>
                    /\ last.result = Valid /\ last.http = 1
                    /\ last.movie = OmdbTransformResponse(OmdbDetailReply(last.movie_id))
              /\ (~last.live /\ OmdbDetailReply(last.movie_id).Response = "False") =>
                    /\ last.result = OmdbDetailsError(OmdbDetailReply(last.movie_id).Error)
                    /\ last.http = 1 /\ last.stored_keys = {}

\* the primary provider's error for tt4 came back as it was raised
C15_Witness ==
    /\ last.op = "get_movie_details"
    /\ last.movie_id = tt4
    /\ last.called
    /\ last.result = ExternalAPIError("OMDB API error: ", IncorrectImdbId)

\* C18: two search_movies calls with identical parameters against the same
\* upstream data have the same outcome and return the same SearchResponse
\* (movies, order, totals), whether the second call is served from the cache
\* or computed from fresh upstream replies.
C18_SameParamsSameResponse ==
    (pc = "done" /\ last.params = call.params) =>
        /\ last.result = call.result
        /\ last.response = call.response

\* the second call with identical parameters was served from the entries the first
\* stored and returned several movies
C18_Witness ==
    /\ BothAnswered
    /\ ret = "between"
    /\ last.params = call.params
    /\ call.omdb.http >= 1
    /\ last.omdb.http = 0
    /\ Len(call.omdb.movies) >= 2
    /\ last.response.movies /= <<>>
    /\ last.response = call.response

\* C19: the primary provider's search turns a reply with Response "False"
\* into an empty list and no error when the reply says nothing was found,
\* into the ExternalAPIError with the dedicated API-key message when it says
\* the key was rejected, and into an ExternalAPIError carrying the upstream
\* error text for every other reply.
C19_SearchFailureClassified ==
    (/\ last.op = "search_movies"
     /\ last.omdb.called
     /\ last.omdb.http >= 1
     /\ upstream.omdb_search.Response = "False") =>
        /\ upstream.omdb_search.Error = MovieNotFound =>
              last.omdb.result = Valid /\ last.omdb.movies = <<>>
        /\ upstream.omdb_search.Error = InvalidApiKey =>
              last.omdb.result =
                  ExternalAPIError(
                      "Invalid OMDB API key. Please check your API key configuration.",
                      <<>>)
        /\ upstream.omdb_search.Error \notin {MovieNotFound, InvalidApiKey} =>
              /\ last.omdb.result.status = "ExternalAPIError"
              /\ last.omdb.result.detail = "OMDB API error: "
              /\ last.omdb.result.upstream_msg = upstream.omdb_search.Error

C19_Witness ==
    /\ last.op = "search_movies"
    /\ last.omdb.called
    /\ upstream.omdb_search = [Response |-> "False", Error |-> TooManyResults]
    /\ last.result = ExternalAPIError("OMDB API error: ", TooManyResults)

\* C22: on every search_movies request that passes validation the search of
\* every configured provider is invoked, whatever the outcome of the other
\* provider's search.
C22_EveryProviderInvoked ==
    (last.op = "search_movies" /\ ValidateSearchParams(last.params) = Valid) =>
        /\ last.omdb.called
        /\ last.tmdb.called

(***************************************************************************)
(* Specifications of the pure functions: Init draws the arguments, the     *)
(* action applies the function.  The request-handling state stays idle.    *)
(***************************************************************************)
Idle == cache = <<>> /\ now = 0 /\ upstream = <<>> /\ last = <<>> /\ session = <<>>

\* all str values of length at most n over the characters chars
StringsUpTo(chars, n) == UNION {[1..k -> chars] : k \in 0..n}

\* all lists of length at most n over elems
ListsUpTo(elems, n) == UNION {[1..k -> elems] : k \in 0..n}

Range(s) == {s[i] : i \in 1..Len(s)}

Batman == <<"b","a","t","m","a","n">>

(***************************************************************************)
(* _validate_search_params                                                 *)
(***************************************************************************)
MaxYearLen == 4
YearChars == {"0", "1", "2", "3", "5", "6", "8", "9", "a", " "}

InitValidate ==
    /\ Idle
    /\ pc = "call"
    /\ ret = Valid
    /\ \E title \in {None, Batman}, year \in StringsUpTo(YearChars, MaxYearLen) \cup {None} :
          call = [fn |-> "_validate_search_params",
                  params |-> MovieSearchParams(title, None, None, None, year, 1, 10)]

ApplyValidate ==
    /\ pc = "call"
    /\ ret' = ValidateSearchParams(call.params)
    /\ pc' = "done"
    /\ UNCHANGED <<cache, now, upstream, last, session, call>>

SpecValidate == InitValidate /\ [][ApplyValidate]_vars

\* the year of the validated query, as an integer when int() accepts it
YearOf(params) == PyInt(params.year)

\* C2 as stated: a non-empty year passes validation exactly when it is a
\* decimal integer y with 1900 <= y <= 2030.
C2_YearBound2030 ==
    (pc = "done" /\ Truthy(call.params.year)) =>
        (ret = Valid <=> (/\ YearOf(call.params).ok
                          /\ YearOf(call.params).val >= 1900
                          /\ YearOf(call.params).val <= 2030))

\* C2 amended: a non-empty year passes validation exactly when it is a
\* decimal integer y with 1900 <= y <= 2025; a non-numeric year and any year
\* below 1900 or above 2025 fail with ValidationError.
C2_YearBound2025 ==
    (pc = "done" /\ Truthy(call.params.year)) =>
        /\ ret = Valid <=> (/\ YearOf(call.params).ok
                            /\ YearOf(call.params).val >= 1900
                            /\ YearOf(call.params).val <= 2025)
        /\ ret /= Valid => ret.status = "ValidationError"

\* a year on the upper bound was validated and accepted
C2_Witness ==
    /\ pc = "done"
    /\ call.params.year = <<"2", "0", "2", "5">>
    /\ ret = Valid

(***************************************************************************)
(* _merge_movie_results                                                    *)
(***************************************************************************)
MaxMergeLen == 2

Dune == <<"D", "u", "n", "e">>
DuneLowerPadded == <<"d", "u", "n", "e", " ">>
Rating75 == <<"7", ".", "5">>
Year2021 == <<"2", "0", "2", "1">>
Year1984 == <<"1", "9", "8", "4">>

\* entities whose titles differ in case and padding only, so that distinct
\* entities share a merge key
MergeMovies ==
    {Movie(title, year, None, MOVIE, None, None, rating) :
        title \in {Dune, DuneLowerPadded}, year \in {Year2021, Year1984},
        rating \in {Rating80, Rating75}}

InitMerge ==
    /\ Idle
    /\ pc = "call"
    /\ ret = <<>>
    /\ \E omdb_movies \in ListsUpTo(MergeMovies, MaxMergeLen),
          tmdb_movies \in ListsUpTo(MergeMovies, MaxMergeLen) :
          call = [fn |-> "_merge_movie_results",
                  omdb_movies |-> omdb_movies, tmdb_movies |-> tmdb_movies]

ApplyMerge ==
    /\ pc = "call"
    /\ ret' = MergeMovieResults(call.omdb_movies, call.tmdb_movies)
    /\ pc' = "done"
    /\ UNCHANGED <<cache, now, upstream, last, session, call>>

SpecMerge == InitMerge /\ [][ApplyMerge]_vars

KeysOf(movies) == {MovieKey(movies[i]) : i \in 1..Len(movies)}

\* C3: the merged set holds exactly one entity per key (lower-cased, trimmed
\* title, year) of either list; where the primary list has the key the
\* merged entity is a primary one, and a secondary entity appears only for
\* keys absent from the primary list.
C3_MergeOnePerKeyPrimaryWins ==
    pc = "done" =>
        /\ KeysOf(ret) = KeysOf(call.omdb_movies) \cup KeysOf(call.tmdb_movies)
        /\ \A i, j \in 1..Len(ret) : MovieKey(ret[i]) = MovieKey(ret[j]) => i = j
        /\ \A i \in 1..Len(ret) :
              IF MovieKey(ret[i]) \in KeysOf(call.omdb_movies)
              THEN ret[i] \in Range(call.omdb_movies)
              ELSE ret[i] \in Range(call.tmdb_movies)

\* the Dune case: the two lists hold different entities under one key and
\* the merge returned the primary one alone
C3_Witness ==
    /\ pc = "done"
    /\ call.omdb_movies = <<Movie(Dune, Year2021, None, MOVIE, None, None, Rating80)>>
    /\ call.tmdb_movies = <<Movie(Dune, Year2021, None, MOVIE, None, None, Rating75)>>
    /\ ret = call.omdb_movies

(***************************************************************************)
(* _sort_movies                                                            *)
(***************************************************************************)
MaxSortLen == 3

TitleJoker == <<"J", "o", "k", "e", "r">>
Rating85 == <<"8", ".", "5">>
RatingNA == <<"N", "/", "A">>
YearRange == <<"2", "0", "0", "5", "-">>

Batman70 == Movie(TitleBatman, Year1989, None, MOVIE, None, None, Rating70)
TheBatman85 == Movie(TitleTheBatman, Year2022, None, MOVIE, None, None, Rating85)
BatmanBegins80 == Movie(TitleBatmanBegins, Year2005, None, MOVIE, None, None, Rating80)

\* the three entities of the ranking example, and entities whose rating or
\* year is absent, empty or not a number
SortMovieSet ==
    {Batman70, TheBatman85, BatmanBegins80,
     Movie(TitleBatmanBegins, Year2005, None, MOVIE, None, None, None),
     Movie(TitleBatmanBegins, Year2022, None, MOVIE, None, None, RatingNA),
     Movie(TitleBatmanBegins, None, None, MOVIE, None, None, Rating80),
     Movie(TitleTheBatman, YearRange, None, SERIES, None, None, Rating85),
     Movie(TitleJoker, Year1989, None, MOVIE, None, None, <<>>)}

InitSort ==
    /\ Idle
    /\ pc = "call"
    /\ ret = <<>>
    /\ \E movies \in ListsUpTo(SortMovieSet, MaxSortLen), title \in {None, Batman} :
          call = [fn |-> "_sort_movies", movies |-> movies,
                  params |-> MovieSearchParams(title, None, None, None, None, 1, 10)]

ApplySort ==
    /\ pc = "call"
    /\ ret' = SortMovies(call.movies, call.params)
    /\ pc' = "done"
    /\ UNCHANGED <<cache, now, upstream, last, session, call>>

SpecSort == InitSort /\ [][ApplySort]_vars

\* the external rating and the year as the ranking reads them: the number
\* when there is one, 0 when absent or not a number
RatingOrZero(movie) ==
    IF movie.imdb_rating = None THEN 0
    ELSE IF PyFloat10(movie.imdb_rating).ok THEN PyFloat10(movie.imdb_rating).val
    ELSE 0

YearOrZero(movie) ==
    IF movie.year = None THEN 0
    ELSE IF PyInt(movie.year).ok THEN PyInt(movie.year).val
    ELSE 0

\* a may stand before b: relevance ascending, then rating descending, then
\* year descending
RankedBefore(a, b, params) ==
    \/ TitleScore(a, params) < TitleScore(b, params)
    \/ /\ TitleScore(a, params) = TitleScore(b, params)
       /\ \/ RatingOrZero(a) > RatingOrZero(b)
          \/ /\ RatingOrZero(a) = RatingOrZero(b)
             /\ YearOrZero(a) >= YearOrZero(b)

IsPermutation(s, t) ==
    /\ Len(s) = Len(t)
    /\ \A x \in Range(s) \cup Range(t) :
          Cardinality({i \in 1..Len(s) : s[i] = x}) = Cardinality({i \in 1..Len(t) : t[i] = x})

\* C4: the rank step returns its input ordered ascending by (title
\* relevance, rating descending, year descending), an absent or non-numeric
\* rating or year counting as 0; for query title "batman" the order is
\* Batman (7.0), The Batman (8.5), Batman Begins (8.0).
C4_RankOrder ==
    pc = "done" =>
        /\ IsPermutation(ret, call.movies)
        /\ \A i \in 1..(Len(ret) - 1) : RankedBefore(ret[i], ret[i + 1], call.params)
        /\ (/\ call.params.title = Batman
            /\ Len(call.movies) = 3
            /\ Range(call.movies) = {Batman70, TheBatman85, BatmanBegins80})
           => ret = <<Batman70, TheBatman85, BatmanBegins80>>

\* the ranking example was sorted, from an input in another order
C4_Witness ==
    /\ pc = "done"
    /\ call.params.title = Batman
    /\ call.movies = <<Batman70, BatmanBegins80, TheBatman85>>
    /\ ret = <<Batman70, TheBatman85, BatmanBegins80>>

(***************************************************************************)
(* generate_key                                                            *)
(***************************************************************************)
MaxKwargs == 2

Year2008 == <<"2", "0", "0", "8">>

\* named arguments a search key is derived from, each with two values
KeyItems ==
    {KwArg("title", v) : v \in {None, Batman}}
    \cup {KwArg("year", v) : v \in {None, Year2008}}
    \cup {KwArg("actors", v) : v \in {None, <<"b", "a", "l", "e">>}}

\* keyword arguments of one call: no name twice
KwargLists ==
    {kw \in ListsUpTo(KeyItems, MaxKwargs) :
        \A i, j \in 1..Len(kw) : kw[i].name = kw[j].name => i = j}

InsertAt(s, pos, x) == SubSeq(s, 1, pos - 1) \o <<x>> \o SubSeq(s, pos, Len(s))

\* the same namespace and named values passed in two call orders, and the
\* first call again with a page field added at some position
InitKey ==
    /\ Idle
    /\ pc = "call"
    /\ ret = <<>>
    /\ \E ns \in {"search", "omdb_search"}, kw1 \in KwargLists, kw2 \in KwargLists,
          page \in 1..2, pos \in 1..(MaxKwargs + 1) :
          /\ IsPermutation(kw1, kw2)
          /\ pos <= Len(kw1) + 1
          /\ call = [fn |-> "generate_key", args |-> <<ns>>, kwargs |-> kw1,
                     reordered |-> kw2,
                     paged |-> InsertAt(kw1, pos, KwArg("page", page))]

ApplyKey ==
    /\ pc = "call"
    /\ ret' = <<GenerateKey(call.args, call.kwargs),
                GenerateKey(call.args, call.reordered),
                GenerateKey(call.args, call.paged)>>
    /\ pc' = "done"
    /\ UNCHANGED <<cache, now, upstream, last, session, call>>

SpecKey == InitKey /\ [][ApplyKey]_vars

\* C10: generate_key gives the same key for the same namespace and the same
\* name/value pairs whatever the call order, and a different key once a
\* page field is part of the key material.
C10_KeyOrderIndependent ==
    pc = "done" =>
        /\ ret[1] = ret[2]
        /\ ret[3] /= ret[1]

\* two named values were passed in opposite orders and gave one key
C10_Witness ==
    /\ pc = "done"
    /\ Len(call.kwargs) = 2
    /\ call.reordered = <<call.kwargs[2], call.kwargs[1]>>
    /\ ret[1] = ret[2]
    /\ ret[3] /= ret[1]

(***************************************************************************)
(* The actor and genre filters of the aggregator and of both providers     *)
(***************************************************************************)
MaxFieldLen == 3
MaxQueryLen == 2
FilterChars == {"a", "B", ",", " "}

ChristianBaleMichaelCaine ==
    <<"C", "h", "r", "i", "s", "t", "i", "a", "n", " ", "B", "a", "l", "e", ",", " ",
      "M", "i", "c", "h", "a", "e", "l", " ", "C", "a", "i", "n", "e">>
NeMich == <<"n", "e", ",", " ", "m", "i", "c", "h">>

\* the cast or genre strings of an entity, and the substrings queried
FilterFields ==
    (StringsUpTo(FilterChars, MaxFieldLen) \ {<<>>}) \cup {ChristianBaleMichaelCaine}
FilterQueries == (StringsUpTo(FilterChars, MaxQueryLen) \ {<<>>}) \cup {Bale, NeMich}

InitFilter ==
    /\ Idle
    /\ pc = "call"
    /\ ret = <<>>
    /\ \E by \in {"actors", "genre"}, query \in FilterQueries, field \in FilterFields :
          call = [fn |-> "_matches_filters", by |-> by, query |-> query, field |-> field,
                  params |-> IF by = "actors"
                             THEN MovieSearchParams(None, query, None, None, None, 1, 10)
                             ELSE MovieSearchParams(None, None, None, query, None, 1, 10),
                  movie |-> IF by = "actors"
                            THEN Movie(Batman, None, None, None, field, None, None)
                            ELSE Movie(Batman, None, None, None, None, field, None)]

ApplyFilter ==
    /\ pc = "call"
    /\ ret' = [aggregator |-> PassesAdditionalFilters(call.movie, call.params),
               omdb |-> MatchesFilters(call.movie, call.params),
               tmdb |-> TmdbMatchesFilters(call.movie, call.params)]
    /\ pc' = "done"
    /\ UNCHANGED <<cache, now, upstream, last, session, call>>

SpecFilter == InitFilter /\ [][ApplyFilter]_vars

\* field[a..b] is one of the tokens of field between its commas
IsToken(field, a, b) ==
    /\ \A k \in a..b : field[k] /= ","
    /\ a = 1 \/ field[a - 1] = ","
    /\ b = Len(field) \/ field[b + 1] = ","

\* the trimmed, lower-cased query lies inside a single trimmed, lower-cased
\* token of field
InSingleToken(query, field) ==
    \E a \in 1..(Len(field) + 1), b \in 0..Len(field) :
        /\ a <= b + 1
        /\ IsToken(field, a, b)
        /\ Contains(Strip(Lower(query)), Strip(Lower(SubSeq(field, a, b))))

\* C13: for an entity with a non-empty cast (resp. genre) string the actor
\* (resp. genre) filter matches exactly when the lower-cased, trimmed query
\* is contained in a single comma-split, trimmed, lower-cased token; "bale"
\* matches "Christian Bale, Michael Caine", "ne, mich" does not; the
\* aggregator's filter and both providers' filters agree.
C13_TokenwiseMatch ==
    pc = "done" =>
        /\ ret.aggregator = InSingleToken(call.query, call.field)
        /\ ret.omdb = ret.aggregator
        /\ ret.tmdb = ret.aggregator
        /\ (call.query = Bale /\ call.field = ChristianBaleMichaelCaine) => ret.aggregator
        /\ (call.query = NeMich /\ call.field = ChristianBaleMichaelCaine) => ~ret.aggregator

\* "ne, mich" was sought in "Christian Bale, Michael Caine" and rejected by
\* all three filters
C13_Witness ==
    /\ pc = "done"
    /\ call.by = "actors"
    /\ call.query = NeMich
    /\ call.field = ChristianBaleMichaelCaine
    /\ ret = [aggregator |-> FALSE, omdb |-> FALSE, tmdb |-> FALSE]

(***************************************************************************)
(* The cache store on its own: CacheManager.set, get, clear and size over  *)
(* integer keys.  An operation uses either the key of the newest live      *)
(* entry or the smallest key that has no live entry, so that the store     *)
(* fills up to maxsize and beyond.                                         *)
(***************************************************************************)
CacheKeys == 1..(maxsize + 1)
StoredValue == ListValue(<<>>)

StoredKeys(c) == {c[i].key : i \in 1..Len(c)}
LiveKeys(c, t) == StoredKeys(Expire(c, t))

\* the smallest key outside a set of keys
SmallestOutside(keys) ==
    CHOOSE key \in CacheKeys \ keys : \A other \in CacheKeys \ keys : key <= other

NextKey(c, t) == SmallestOutside(LiveKeys(c, t))

NewestOf(live) == IF live = <<>> THEN SmallestOutside({}) ELSE live[Len(live)].key
NewestKey(c, t) == NewestOf(Expire(c, t))

InitCache ==
    /\ cache = <<>>
    /\ now = 0
    /\ upstream = <<>>
    /\ last = [op |-> "none"]
    /\ session = <<>>
    /\ call = <<>>
    /\ ret = <<>>
    /\ pc = "cache"

\* CacheManager.set(key, value)
StoreSet ==
    \E key \in {NewestKey(cache, now), NextKey(cache, now)} :
        \E value \in {StoredValue} :
            \E out \in {CacheSet(cache, key, value, now)} :
                /\ cache' = out
                /\ last' = [op |-> "set", key |-> key,
                            size_before |-> CacheSize(cache, now),
                            was_live |-> Live(cache, key, now),
                            evicted |-> LiveKeys(cache, now) \ StoredKeys(out),
                            is_live |-> Live(out, key, now),
                            size |-> CacheSize(out, now)]
                /\ UNCHANGED <<now, upstream, session, call, ret, pc>>

\* CacheManager.get(key)
StoreGet ==
    \E key \in {NewestKey(cache, now), NextKey(cache, now)} :
        \E out \in {CacheGet(cache, key, now)} :
            /\ cache' = out.cache
            /\ last' = [op |-> "get", key |-> key, value |-> out.value]
            /\ UNCHANGED <<now, upstream, session, call, ret, pc>>

\* CacheManager.clear()
StoreClear ==
    /\ cache' = <<>>
    /\ last' = [op |-> "clear"]
    /\ UNCHANGED <<now, upstream, session, call, ret, pc>>

\* CacheManager.size()
StoreSize ==
    /\ last' = [op |-> "size", size |-> CacheSize(cache, now)]
    /\ UNCHANGED <<cache, now, upstream, session, call, ret, pc>>

StoreTick ==
    /\ now + TickStep <= MaxTime
    /\ now' = now + TickStep
    /\ UNCHANGED <<cache, upstream, last, session, call, ret, pc>>

NextCache == StoreSet \/ StoreGet \/ StoreClear \/ StoreSize \/ StoreTick

SpecCache == InitCache /\ [][NextCache]_vars

\* C16: after any sequence of set, get, clear and size operations the store
\* never holds more than maxsize entries, and a set of a new key on a full
\* store evicts a live entry
C16_NeverAboveMaxsize ==
    /\ Len(cache) <= maxsize
    /\ CacheSize(cache, now) <= maxsize
    /\ (last.op = "size") => last.size <= maxsize
    /\ (last.op = "set" /\ last.size_before = maxsize /\ ~last.was_live) =>
          /\ last.evicted /= {}
          /\ last.size = maxsize
          /\ last.is_live

C16_Witness ==
    /\ last.op = "set"
    /\ last.size_before = maxsize
    /\ ~last.was_live
    /\ Len(cache) = maxsize

(***************************************************************************)
(* Expiry in the cache store: set, get and clear over a few keys, with a   *)
(* clock that advances by half the ttl.  call remembers, for every key,    *)
(* the sets made since the last clear.                                     *)
(***************************************************************************)
MaxExpiryKeys == 2
ExpiryKeys == 1..MaxExpiryKeys
StoredValues == {ListValue(<<>>), ListValue(<<Batman>>)}
HalfTtl == ttl \div 2
MaxExpiryTime == ttl + ttl

NeverSet == [set |-> FALSE, value |-> NoValue, at |-> 0, first_at |-> 0]

InitExpiry ==
    /\ cache = <<>>
    /\ now = 0
    /\ upstream = <<>>
    /\ last = [op |-> "none"]
    /\ session = <<>>
    /\ call = [key \in ExpiryKeys |-> NeverSet]
    /\ ret = <<>>
    /\ pc = "expiry"

\* CacheManager.set(key, value)
ExpirySet ==
    \E key \in ExpiryKeys, value \in StoredValues :
        /\ cache' = CacheSet(cache, key, value, now)
        /\ call' = [call EXCEPT ![key] =
                        [set |-> TRUE, value |-> value, at |-> now,
                         first_at |-> IF call[key].set THEN call[key].first_at
                                      ELSE now]]
        /\ last' = [op |-> "set"]
        /\ UNCHANGED <<now, upstream, session, ret, pc>>

\* CacheManager.get(key)
ExpiryGet ==
    \E key \in ExpiryKeys :
        \E out \in {CacheGet(cache, key, now)} :
            /\ cache' = out.cache
            /\ last' = [op |-> "get", key |-> key, value |-> out.value,
                        at |-> now, sets |-> call[key]]
            /\ UNCHANGED <<now, upstream, session, call, ret, pc>>

\* CacheManager.clear()
ExpiryClear ==
    /\ cache' = <<>>
    /\ call' = [key \in ExpiryKeys |-> NeverSet]
    /\ last' = [op |-> "clear"]
    /\ UNCHANGED <<now, upstream, session, ret, pc>>

ExpiryTick ==
    /\ now + HalfTtl <= MaxExpiryTime
    /\ now' = now + HalfTtl
    /\ UNCHANGED <<cache, upstream, last, session, call, ret, pc>>

NextExpiry == ExpirySet \/ ExpiryGet \/ ExpiryClear \/ ExpiryTick

SpecExpiry == InitExpiry /\ [][NextExpiry]_vars

\* C17: get returns absent for a key never set and for a key whose last set
\* was at time t from t + ttl on; before t + ttl it returns the value last
\* set, so a later set replaces the value and restarts the expiry
C17_AbsentUnlessSetWithinTtl ==
    last.op = "get" =>
        last.value = IF ~last.sets.set \/ last.at >= last.sets.at + ttl
                     THEN NoValue
                     ELSE last.sets.value

C17_Witness ==
    /\ last.op = "get"
    /\ last.sets.set
    /\ last.at >= last.sets.first_at + ttl
    /\ last.at < last.sets.at + ttl
    /\ last.value = ListValue(<<Batman>>)

(***************************************************************************)
(* MovieService._sort_movies, the title relevance score of one entity      *)
(***************************************************************************)
TitleChars == {"a", "b", "B"}
EntityTitles == StringsUpTo(TitleChars, MaxFieldLen)
QueriedTitles == {None} \cup StringsUpTo(TitleChars, MaxQueryLen)

InitScore ==
    /\ Idle
    /\ pc = "call"
    /\ ret = <<>>
    /\ \E title \in EntityTitles, queried \in QueriedTitles :
          call = [fn |-> "sort_key",
                  movie |-> Movie(title, None, None, MOVIE, None, None, None),
                  params |-> MovieSearchParams(queried, None, None, None, None, 1, 10)]

ApplyScore ==
    /\ pc = "call"
    /\ ret' = <<TitleScore(call.movie, call.params)>>
    /\ pc' = "done"
    /\ UNCHANGED <<cache, now, upstream, last, session, call>>

SpecScore == InitScore /\ [][ApplyScore]_vars

\* C20: the title relevance score is 0 if no title was queried; otherwise 0
\* if the query title equals the entity title case-insensitively, 1 if it is
\* a case-insensitive substring of the entity title, and 2 in every other
\* case, an entity with an empty title included.
C20_TitleScoreTable ==
    pc = "done" =>
        ret = <<IF ~Truthy(call.params.title) THEN 0
                ELSE IF Lower(call.params.title) = Lower(call.movie.title) THEN 0
                ELSE IF Contains(Lower(call.params.title), Lower(call.movie.title)) THEN 1
                ELSE 2>>

(***************************************************************************)
(* MovieService.search_movies, the merge, filter and rank steps on the     *)
(* lists of the two providers                                              *)
(***************************************************************************)
MaxRankOmdb == 3
MaxRankTmdb == 2

\* entities of one year that tie on the ranking key or share a merge key
RankMovies ==
    {Movie(Dune, Year2021, None, MOVIE, None, None, Rating80),
     Movie(DuneLowerPadded, Year2021, None, MOVIE, None, None, Rating75),
     Movie(TitleBatman, Year2021, None, MOVIE, None, None, Rating75),
     Movie(TitleJoker, Year2021, None, MOVIE, None, None, Rating75)}

InitRank ==
    /\ Idle
    /\ pc = "call"
    /\ ret = <<>>
    /\ \E omdb_movies \in ListsUpTo(RankMovies, MaxRankOmdb),
          tmdb_movies \in ListsUpTo(RankMovies, MaxRankTmdb) :
          call = [fn |-> "search_movies",
                  omdb_movies |-> omdb_movies, tmdb_movies |-> tmdb_movies,
                  params |-> MovieSearchParams(None, None, MOVIE, None, None, 1, 10)]

ApplyRank ==
    /\ pc = "call"
    /\ ret' = SortMovies(
                  ApplyAdditionalFilters(
                      MergeMovieResults(call.omdb_movies, call.tmdb_movies),
                      call.params),
                  call.params)
    /\ pc' = "done"
    /\ UNCHANGED <<cache, now, upstream, last, session, call>>

SpecRank == InitRank /\ [][ApplyRank]_vars

\* a stands before b in list
StandsBefore(a, b, list) ==
    \E i \in 1..Len(list), j \in 1..Len(list) : i < j /\ list[i] = a /\ list[j] = b

\* a comes before b in the order the claim describes: the primary's
\* entities in the primary's order, then the secondary's in its order
NativeOrder(a, b, omdb_movies, tmdb_movies) ==
    \/ StandsBefore(a, b, omdb_movies)
    \/ a \in Range(omdb_movies) /\ b \notin Range(omdb_movies)
    \/ /\ a \notin Range(omdb_movies)
       /\ b \notin Range(omdb_movies)
       /\ StandsBefore(a, b, tmdb_movies)

\* C21: entities that tie on all three ranking keys appear in the final
\* order in their merge order: primary-provider entities in the primary's
\* upstream order first, then the secondary-provider entities in the
\* secondary's order.
C21_TiesInNativeOrder ==
    pc = "done" =>
        \A i \in 1..Len(ret), j \in 1..Len(ret) :
            (i < j /\ SortKey(ret[i], call.params) = SortKey(ret[j], call.params)) =>
                NativeOrder(ret[i], ret[j], call.omdb_movies, call.tmdb_movies)

\* the position at which the merge first inserted the key of movie: among
\* the primary's keys, or after them among the secondary's
FirstWithKey(list, key) ==
    CHOOSE i \in 1..Len(list) :
        /\ MovieKey(list[i]) = key
        /\ \A j \in 1..(i - 1) : MovieKey(list[j]) /= key

KeyRank(movie, omdb_movies, tmdb_movies) ==
    IF MovieKey(movie) \in KeysOf(omdb_movies)
    THEN FirstWithKey(omdb_movies, MovieKey(movie))
    ELSE Len(omdb_movies) + FirstWithKey(tmdb_movies, MovieKey(movie))

\* C21 amended: entities that tie on all three ranking keys appear in the
\* order in which the merge first inserted their keys: the primary's keys
\* in the order of their first occurrence, then the secondary's keys that
\* the primary does not have, in the order of their first occurrence.
C21_TiesInKeyInsertionOrder ==
    pc = "done" =>
        \A i \in 1..Len(ret), j \in 1..Len(ret) :
            (i < j /\ SortKey(ret[i], call.params) = SortKey(ret[j], call.params)) =>
                KeyRank(ret[i], call.omdb_movies, call.tmdb_movies)
                    < KeyRank(ret[j], call.omdb_movies, call.tmdb_movies)

\* three entities tie: a primary entity that took the place of an earlier
\* one with its key, a primary entity, and a secondary entity
C21_Witness ==
    /\ pc = "done"
    /\ call.omdb_movies =
           <<Movie(Dune, Year2021, None, MOVIE, None, None, Rating80),
             Movie(TitleJoker, Year2021, None, MOVIE, None, None, Rating75),
             Movie(DuneLowerPadded, Year2021, None, MOVIE, None, None, Rating75)>>
    /\ call.tmdb_movies =
           <<Movie(TitleBatman, Year2021, None, MOVIE, None, None, Rating75)>>
    /\ ret = <<Movie(DuneLowerPadded, Year2021, None, MOVIE, None, None, Rating75),
               Movie(TitleJoker, Year2021, None, MOVIE, None, None, Rating75),
               Movie(TitleBatman, Year2021, None, MOVIE, None, None, Rating75)>>

(***************************************************************************)
(* A provider search on a cold cache, over result pages whose rows can     *)
(* fail: OMDB rows without a detail record, TMDB rows whose detail request *)
(* fails or whose date is not a string                                     *)
(***************************************************************************)
MaxRows == 3

TmdbMalformedRow ==
    [id |-> 1, title |-> TitleBatman, release_date |-> NumberDate, vote_average |-> 0]

ProviderRows ==
    [omdb |-> {OmdbRow(tt2), OmdbRow(tt3), OmdbRow(tt4), OmdbRowNoId},
     tmdb |-> {TmdbMovieRow(1), TmdbMovieRow(2), TmdbMovieRow(TmdbGoneId), TmdbMalformedRow}]

RowParams ==
    {MovieSearchParams(Batman, None, None, None, None, 1, 10),
     MovieSearchParams(Batman, Bale, None, None, None, 1, 10)}

\* the provider's search_movies on a cold cache for a result page of rows
SearchRows(provider, rows, params) ==
    IF provider = "omdb"
    THEN OmdbSearchMovies(params, <<>>, 0, [Response |-> "True", Search |-> rows])
    ELSE TmdbSearchMovies(params, <<>>, 0, [ok |-> TRUE, results |-> rows],
                          [ok |-> TRUE, results |-> <<>>])

InitRows ==
    /\ Idle
    /\ pc = "call"
    /\ ret = <<>>
    /\ \E provider \in {"omdb", "tmdb"}, params \in RowParams :
       \E rows \in ListsUpTo(ProviderRows[provider], MaxRows) :
          call = [fn |-> "search_movies", provider |-> provider, rows |-> rows,
                  params |-> params]

ApplyRows ==
    /\ pc = "call"
    /\ \E out \in {SearchRows(call.provider, call.rows, call.params)} :
          ret' = [result |-> out.result, movies |-> out.movies]
    /\ pc' = "done"
    /\ UNCHANGED <<cache, now, upstream, last, session, call>>

SpecRows == InitRows /\ [][ApplyRows]_vars

\* the row's detail fetch and normalization succeed
RowSucceeds(provider, row, params) ==
    IF provider = "omdb"
    THEN ~Truthy(row.imdbID) \/ OmdbDetailReply(row.imdbID).Response = "True"
    ELSE IF Truthy(params.actors) \/ Truthy(params.genre)
    THEN TmdbMovieDetailOk(row.id)
    ELSE row.release_date /= NumberDate

\* the entity of a row that succeeds
RowMovie(provider, row, params) ==
    IF provider = "omdb"
    THEN IF Truthy(row.imdbID) THEN OmdbTransformResponse(OmdbDetailReply(row.imdbID))
         ELSE OmdbTransformSearchResult(row)
    ELSE IF Truthy(params.actors) \/ Truthy(params.genre)
    THEN TmdbTransformDetailedMovieResponse(TmdbMovieDetail(row.id))
    ELSE TmdbTransformSearchResult(row, MOVIE)

SucceedingRows(provider, rows, params) ==
    SelectSeq(rows, LAMBDA row : RowSucceeds(provider, row, params))

\* sub can be obtained from list by leaving elements out
RECURSIVE IsSubsequence(_, _)
IsSubsequence(sub, list) ==
    IF sub = <<>> THEN TRUE
    ELSE IF list = <<>> THEN FALSE
    ELSE IF Head(sub) = Head(list) THEN IsSubsequence(Tail(sub), Tail(list))
    ELSE IsSubsequence(sub, Tail(list))

\* C23: a row whose detail fetch or normalization fails never fails the
\* provider's search: the call succeeds, returns what it returns for the
\* page without the failing rows, and the entities returned are entities of
\* succeeding rows in their upstream order.
C23_FailingRowsLeftOut ==
    pc = "done" =>
        /\ ret.result = Valid
        /\ ret.movies =
              SearchRows(call.provider,
                         SucceedingRows(call.provider, call.rows, call.params),
                         call.params).movies
        /\ IsSubsequence(ret.movies,
              [i \in 1..Len(SucceedingRows(call.provider, call.rows, call.params)) |->
                  RowMovie(call.provider,
                           SucceedingRows(call.provider, call.rows, call.params)[i],
                           call.params)])

\* a failing row stood between two rows that succeeded, and both entities
\* were returned
C23_Witness ==
    /\ pc = "done"
    /\ Len(call.rows) = 3
    /\ ~RowSucceeds(call.provider, call.rows[2], call.params)
    /\ Len(ret.movies) = 2
    /\ ret.movies[1] = RowMovie(call.provider, call.rows[1], call.params)
    /\ ret.movies[2] = RowMovie(call.provider, call.rows[3], call.params)

(***************************************************************************)
(* Concurrent requests.  The service runs on one asyncio event loop: a     *)
(* coroutine runs without interruption from one await of an upstream       *)
(* request to the next.  Two tasks run OMDBClient.search_movies for the    *)
(* same query; each action is the code of one task between two awaits.     *)
(* call[task] is the task's frame: where it is suspended, the rows still   *)
(* to process (the first one awaits its detail reply), the list movies     *)
(* built so far, what its get on the search key observed, what it returned *)
(***************************************************************************)
Tasks == {1, 2}

Frame(at, rows, movies, observed, stored, result) ==
    [at |-> at, rows |-> rows, movies |-> movies, observed |-> observed,
     stored |-> stored, result |-> result]

\* a row loop that stores the list it is building before every await
RECURSIVE RaceRunRowsStoringEarly(_, _, _, _, _, _)
RaceRunRowsStoringEarly(rows, params, key, c, t, movies) ==
    IF rows = <<>>
    THEN [at |-> "done", rows |-> rows, movies |-> movies,
          cache |-> CacheSet(c, key, ListValue(movies), t)]
    ELSE IF Truthy(Head(rows).imdbID)
    THEN IF TruthyValue(CacheGet(c, OmdbDetailsKey(Head(rows).imdbID), t).value)
         THEN RaceRunRowsStoringEarly(Tail(rows), params, key,
                  CacheGet(c, OmdbDetailsKey(Head(rows).imdbID), t).cache, t,
                  IF MatchesFilters(CacheGet(c, OmdbDetailsKey(Head(rows).imdbID), t).value.v[1],
                                    params)
                  THEN Append(movies,
                              CacheGet(c, OmdbDetailsKey(Head(rows).imdbID), t).value.v[1])
                  ELSE movies)
         ELSE [at |-> "detail", rows |-> rows, movies |-> movies,
               cache |-> CacheSet(c, key, ListValue(movies), t)]
    ELSE RaceRunRowsStoringEarly(Tail(rows), params, key, c, t,
             IF MatchesFilters(OmdbTransformSearchResult(Head(rows)), params)
             THEN Append(movies, OmdbTransformSearchResult(Head(rows)))
             ELSE movies)

\* the row loop of search_movies (lines 71-94) from the rows left up to the
\* next await of a detail request, or to cache_manager.set and return
RECURSIVE RaceRunRows(_, _, _, _, _, _)
RaceRunRows(rows, params, key, c, t, movies) ==
    IF rows = <<>>
    THEN [at |-> "done", rows |-> rows, movies |-> movies,
          cache |-> CacheSet(c, key, ListValue(movies), t)]
    ELSE IF Truthy(Head(rows).imdbID)
    THEN IF TruthyValue(CacheGet(c, OmdbDetailsKey(Head(rows).imdbID), t).value)
         THEN RaceRunRows(Tail(rows), params, key,
                  CacheGet(c, OmdbDetailsKey(Head(rows).imdbID), t).cache, t,
                  IF MatchesFilters(CacheGet(c, OmdbDetailsKey(Head(rows).imdbID), t).value.v[1],
                                    params)
                  THEN Append(movies,
                              CacheGet(c, OmdbDetailsKey(Head(rows).imdbID), t).value.v[1])
                  ELSE movies)
         ELSE [at |-> "detail", rows |-> rows, movies |-> movies,
               cache |-> CacheGet(c, OmdbDetailsKey(Head(rows).imdbID), t).cache]
    ELSE RaceRunRows(Tail(rows), params, key, c, t,
             IF MatchesFilters(OmdbTransformSearchResult(Head(rows)), params)
             THEN Append(movies, OmdbTransformSearchResult(Head(rows)))
             ELSE movies)

InitRace ==
    /\ cache = <<>>
    /\ now = 0
    /\ upstream \in {u \in Upstreams : /\ u.tmdb_movie = ReferenceTmdbMovie
                                       /\ u.tmdb_tv = ReferenceTmdbTv}
    /\ last = <<>>
    /\ session \in {[params |-> params] : params \in RowParams}
    /\ call = [task \in Tasks |-> Frame("idle", <<>>, <<>>, NoValue, FALSE, Valid)]
    /\ ret = <<>>
    /\ pc = "race"

\* search_movies up to the await of the ?s= request (lines 24-57)
RaceStart(task) ==
    /\ call[task].at = "idle"
    /\ \E got \in {CacheGet(cache, OmdbSearchKey(session.params), now)} :
          /\ cache' = got.cache
          /\ call' = [call EXCEPT ![task] =
                IF TruthyValue(got.value)
                THEN Frame("done", <<>>, got.value.v, got.value, FALSE, Valid)
                ELSE Frame("search", <<>>, <<>>, got.value, FALSE, Valid)]
    /\ UNCHANGED <<now, upstream, last, session, ret, pc>>

\* from the answer to the ?s= request to the next await or the return
\* (lines 57-99)
RaceSearchReply(task) ==
    /\ call[task].at = "search"
    /\ IF upstream.omdb_search.Response = "Raise"
       THEN /\ call' = [call EXCEPT ![task] =
                   Frame("done", <<>>, <<>>, call[task].observed, FALSE,
                         ExternalAPIError("HTTP error occurred", <<>>))]
            /\ cache' = cache
       ELSE IF upstream.omdb_search.Response = "False"
       THEN /\ call' = [call EXCEPT ![task] =
                   Frame("done", <<>>, <<>>, call[task].observed, FALSE,
                         OmdbSearchError(upstream.omdb_search.Error))]
            /\ cache' = cache
       ELSE \E run \in {RaceRunRows(upstream.omdb_search.Search, session.params,
                                    OmdbSearchKey(session.params), cache, now, <<>>)} :
               /\ call' = [call EXCEPT ![task] =
                      Frame(run.at, run.rows, run.movies, call[task].observed,
                            run.at = "done", Valid)]
               /\ cache' = run.cache
    /\ UNCHANGED <<now, upstream, last, session, ret, pc>>

\* _get_detailed_movie_info from the answer to its ?i= request (lines
\* 204-213), then the row loop up to the next await or the return
RaceDetailReply(task) ==
    /\ call[task].at = "detail"
    /\ \E response \in {OmdbDetailReply(Head(call[task].rows).imdbID)} :
       \E run \in {IF response.Response = "False"
                   THEN RaceRunRows(Tail(call[task].rows), session.params,
                                    OmdbSearchKey(session.params), cache, now,
                                    call[task].movies)
                   ELSE RaceRunRows(Tail(call[task].rows), session.params,
                            OmdbSearchKey(session.params),
                            CacheSet(cache, OmdbDetailsKey(Head(call[task].rows).imdbID),
                                     MovieValue(OmdbTransformResponse(response)), now),
                            now,
                            IF MatchesFilters(OmdbTransformResponse(response), session.params)
                            THEN Append(call[task].movies, OmdbTransformResponse(response))
                            ELSE call[task].movies)} :
          /\ call' = [call EXCEPT ![task] =
                 Frame(run.at, run.rows, run.movies, call[task].observed,
                       run.at = "done", Valid)]
          /\ cache' = run.cache
    /\ UNCHANGED <<now, upstream, last, session, ret, pc>>

RaceTick ==
    /\ now + TickStep <= MaxTime
    /\ now' = now + TickStep
    /\ UNCHANGED <<cache, upstream, last, session, call, ret, pc>>

NextRace ==
    \/ \E task \in Tasks : RaceStart(task)
    \/ \E task \in Tasks : RaceSearchReply(task)
    \/ \E task \in Tasks : RaceDetailReply(task)
    \/ RaceTick

SpecRace == InitRace /\ [][NextRace]_vars

\* the list one search of the query returns on its own
CompleteList == OmdbSearchMovies(session.params, <<>>, 0, upstream.omdb_search).movies

EntriesUnder(key) == {i \in 1..Len(cache) : cache[i].key = key}

\* C24: under every interleaving of concurrent searches at their awaits, the
\* search key maps only to a complete list written by a finished set, never
\* to a list a task is still building; a get observes absent or such a
\* complete list; and concurrent cold searches of one key leave exactly one
\* entry under it.
C24_OnlyCompleteListsVisible ==
    /\ \A i \in EntriesUnder(OmdbSearchKey(session.params)) :
          cache[i].value = ListValue(CompleteList)
    /\ \A task \in Tasks :
          /\ call[task].observed \in {NoValue, ListValue(CompleteList)}
          /\ (call[task].at = "done" /\ call[task].result = Valid) =>
                call[task].movies = CompleteList
    /\ (\A task \in Tasks : call[task].stored) =>
          Cardinality(EntriesUnder(OmdbSearchKey(session.params))) = 1

\* one task has stored its complete list of two movies while the other,
\* which also started cold, still holds a shorter list and awaits a detail
C24_Witness ==
    /\ call[2].stored
    /\ call[1].at = "detail"
    /\ call[1].observed = NoValue
    /\ Len(call[1].movies) = 1
    /\ Len(CompleteList) = 2
    /\ Live(cache, OmdbSearchKey(session.params), now)

(***************************************************************************)
(* Shared list objects.  The list a provider returns is the object it      *)
(* stored in, or read from, the cache under its search key, so anything    *)
(* the aggregator did to that object would show in the cache.  The         *)
(* contents of the two objects after the aggregator's steps are written    *)
(* back to the entries that hold them.                                     *)
(***************************************************************************)

\* the two argument lists extended in place by the merge
AggregatorInputsExtended(omdb_movies, tmdb_movies, params) ==
    [omdb_movies |-> omdb_movies \o tmdb_movies, tmdb_movies |-> tmdb_movies]

\* the contents of omdb_movies and tmdb_movies after lines 33-46: the merge
\* iterates them (71, 76) and fills its own dict, the filter appends to its
\* own list (86, 111), sorted() and the slice return new lists
AggregatorInputsAfter(omdb_movies, tmdb_movies, params) ==
    [omdb_movies |-> omdb_movies, tmdb_movies |-> tmdb_movies]

\* the entry under key holds the list object movies: the provider returned
\* the cached object or stored the list it returned
Aliased(c, key, movies) ==
    HasKey(c, key) /\ c[IndexOf(c, key)].value = ListValue(movies)

WriteBack(c, key, movies, after) ==
    IF Aliased(c, key, movies)
    THEN [i \in 1..Len(c) |->
             IF c[i].key = key THEN [c[i] EXCEPT !.value = ListValue(after)] ELSE c[i]]
    ELSE c

\* the cache after search_movies, the shared objects included
CacheAfterSearch(params, out, after) ==
    IF out.result /= Valid THEN out.cache
    ELSE WriteBack(WriteBack(out.cache, OmdbSearchKey(params), out.omdb.movies,
                             after.omdb_movies),
                   TmdbSearchKey(params), out.tmdb.movies, after.tmdb_movies)

InitAlias ==
    /\ cache = <<>>
    /\ now = 0
    /\ upstream \in Upstreams
    /\ last = NoRequest
    /\ session \in {NoSession(fields) : fields \in QueryFields}
    /\ call = NoRequest
    /\ ret = <<>>
    /\ pc = "alias"

AliasSearch ==
    \E limit \in 1..MaxLimit :
    \E params \in {MovieSearchParams(session.fields.title, session.fields.actors,
                                     session.fields.type, session.fields.genre,
                                     session.fields.year, 1, limit)} :
    \E out \in {SearchMovies(params, cache, now, upstream)} :
    \E after \in {AggregatorInputsAfter(out.omdb.movies, out.tmdb.movies, params)} :
        /\ cache' = CacheAfterSearch(params, out, after)
        /\ last' = [op |-> "search_movies", params |-> params, result |-> out.result,
                    response |-> out.response, omdb |-> out.omdb, tmdb |-> out.tmdb,
                    before |-> cache, provider_cache |-> out.cache,
                    previous |-> IF last.op = "search_movies"
                                 THEN [op |-> "search_movies", params |-> last.params,
                                       omdb |-> last.omdb.result, tmdb |-> last.tmdb.result,
                                       at |-> last.at]
                                 ELSE NoRequest,
                    at |-> now]
        /\ UNCHANGED <<now, upstream, session, call, ret, pc>>

AliasTick ==
    /\ now + TickStep <= MaxTime
    /\ now' = now + TickStep
    /\ UNCHANGED <<cache, upstream, last, session, call, ret, pc>>

NextAlias == AliasSearch \/ AliasTick

SpecAlias == InitAlias /\ [][NextAlias]_vars

NothingNewUnder(key) ==
    HasKey(cache, key) =>
        /\ HasKey(last.before, key)
        /\ cache[IndexOf(cache, key)] = last.before[IndexOf(last.before, key)]

\* C26: a provider search that raises ExternalAPIError stores nothing under
\* its search key, and the next identical search fetches upstream again.
C26_FailedSearchStoresNothing ==
    last.op = "search_movies" =>
        /\ (last.omdb.called /\ last.omdb.result.status = "ExternalAPIError") =>
              NothingNewUnder(OmdbSearchKey(last.params))
        /\ (last.tmdb.called /\ last.tmdb.result.status = "ExternalAPIError") =>
              NothingNewUnder(TmdbSearchKey(last.params))
        /\ (last.previous.op = "search_movies" /\ last.previous.params = last.params) =>
              /\ last.previous.omdb.status = "ExternalAPIError" => last.omdb.http >= 1
              /\ (last.previous.tmdb.status = "ExternalAPIError" /\ last.tmdb.called) =>
                    last.tmdb.http >= 1

\* the secondary provider's search failed twice in a row for one query, at
\* one time: the second call fetched again and no entry is under its key
C26_Witness ==
    /\ last.op = "search_movies"
    /\ last.previous.op = "search_movies"
    /\ last.previous.params = last.params
    /\ last.previous.at = last.at
    /\ last.previous.tmdb.status = "ExternalAPIError"
    /\ last.tmdb.called
    /\ last.tmdb.result.status = "ExternalAPIError"
    /\ last.tmdb.http >= 1
    /\ ~HasKey(cache, TmdbSearchKey(last.params))

\* the ?s= page of this run holds a row whose detail fetch fails
HasFailingRow ==
    /\ upstream.omdb_search.Response = "True"
    /\ \E i \in 1..Len(upstream.omdb_search.Search) :
          /\ Truthy(upstream.omdb_search.Search[i].imdbID)
          /\ OmdbDetailReply(upstream.omdb_search.Search[i].imdbID).Response = "False"

\* C27: when a row's detail fetch fails during an OMDB search whose search
\* call succeeded, the list without that row is stored under the search key,
\* and an identical search made while that entry is live returns the stored
\* list without any upstream request.
C27_ShortenedListServedFromCache ==
    (last.op = "search_movies" /\ last.omdb.called /\ HasFailingRow) =>
        /\ (last.omdb.result = Valid /\ last.omdb.http >= 1) =>
              /\ Live(cache, OmdbSearchKey(last.params), last.at)
              /\ cache[IndexOf(cache, OmdbSearchKey(last.params))].value
                     = ListValue(last.omdb.movies)
        /\ last.omdb.live =>
              /\ last.omdb.http = 0
              /\ last.omdb.movies = last.omdb.stored.v

====
